---------------------------- MODULE Spec2Model ----------------------------
(***************************************************************************)
(* DataFloor (src/app/page.js, and its earlier version in                  *)
(* src/unnamed/part_000): a single React component that loads a CSV, JSON  *)
(* or Parquet file into the array `data`, shows it in a searchable,        *)
(* sortable, paginated, editable grid and exports it again.                *)
(*                                                                         *)
(* JavaScript strings are modelled as sequences of one-character strings,  *)
(* so that toLowerCase, includes, endsWith, the extension regular          *)
(* expression and the string comparison of the sort are computed and not   *)
(* assumed.  Column names are only ever used as object keys and are kept   *)
(* as plain strings.                                                       *)
(***************************************************************************)
EXTENDS Integers, Sequences, FiniteSets, TLC

(***************************************************************************)
(* Bounds of the model.                                                    *)
(***************************************************************************)
\* rows of the long data set of the paging specification
MaxRows == 101
\* cell edits per behaviour of the grid specifications
MaxEdits == 1
\* files handed to handleFileUpload per behaviour
MaxUploads == 2
\* pending 2000 ms timers of the copy button
MaxCopies == 1

(***************************************************************************)
(* Characters and strings.                                                 *)
(***************************************************************************)
Digits == <<"0", "1", "2", "3", "4", "5", "6", "7", "8", "9">>
Lowers == <<"a", "b", "c", "d", "e", "f", "g", "h", "i", "j", "k", "l", "m",
            "n", "o", "p", "q", "r", "s", "t", "u", "v", "w", "x", "y", "z">>
Uppers == <<"A", "B", "C", "D", "E", "F", "G", "H", "I", "J", "K", "L", "M",
            "N", "O", "P", "Q", "R", "S", "T", "U", "V", "W", "X", "Y", "Z">>

Range(seq) == {seq[i] : i \in 1..Len(seq)}

IndexIn(seq, c) == CHOOSE i \in 1..Len(seq) : seq[i] = c

\* the other characters of the model's alphabet with their UTF-16 code units
Marks ==
    << <<"\t", 9>>, <<" ", 32>>, <<"\"", 34>>, <<",", 44>>, <<"-", 45>>, <<".", 46>>, <<"/", 47>>,
       <<":", 58>>, <<";", 59>>, <<"[", 91>>, <<"\\", 92>>, <<"]", 93>>, <<"_", 95>>,
       <<"{", 123>>, <<"|", 124>>, <<"}", 125>> >>

Alphabet ==
    Range(Digits) \cup Range(Lowers) \cup Range(Uppers) \cup {m[1] : m \in Range(Marks)}

\* the UTF-16 code unit of every character of the alphabet
CharCodes ==
    [c \in Alphabet |->
        IF c \in Range(Digits) THEN 47 + IndexIn(Digits, c)
        ELSE IF c \in Range(Uppers) THEN 64 + IndexIn(Uppers, c)
        ELSE IF c \in Range(Lowers) THEN 96 + IndexIn(Lowers, c)
        ELSE (CHOOSE m \in Range(Marks) : m[1] = c)[2]]

CharCode(c) == CharCodes[c]

\* String.prototype.toLowerCase of every character of the alphabet
LowerChars ==
    [c \in Alphabet |-> IF c \in Range(Uppers) THEN Lowers[IndexIn(Uppers, c)] ELSE c]

LowerChar(c) == LowerChars[c]

\* String.prototype.toLowerCase
ToLowerCase(s) == [i \in 1..Len(s) |-> LowerChar(s[i])]

\* whether s occurs in t starting at offset k (0-based)
MatchAt(t, s, k) ==
    /\ k + Len(s) <= Len(t)
    /\ \A i \in 1..Len(s) : t[k + i] = s[i]

\* String.prototype.includes: scan the offsets from the left
RECURSIVE IncludesFrom(_, _, _)
IncludesFrom(t, s, k) ==
    IF k + Len(s) > Len(t) THEN FALSE
    ELSE IF MatchAt(t, s, k) THEN TRUE
    ELSE IncludesFrom(t, s, k + 1)

Includes(t, s) == IncludesFrom(t, s, 0)

\* String.prototype.endsWith
EndsWith(t, s) == Len(s) <= Len(t) /\ MatchAt(t, s, Len(t) - Len(s))

\* the JavaScript relational comparison of two strings (code unit order)
RECURSIVE StrLess(_, _)
StrLess(a, b) ==
    IF b = <<>> THEN FALSE
    ELSE IF a = <<>> THEN TRUE
    ELSE IF CharCode(Head(a)) < CharCode(Head(b)) THEN TRUE
    ELSE IF CharCode(Head(a)) > CharCode(Head(b)) THEN FALSE
    ELSE StrLess(Tail(a), Tail(b))

\* the decimal digits of a natural number, as String(n) gives them
RECURSIVE DigitsOf(_)
DigitsOf(n) ==
    IF n < 10 THEN <<Digits[n + 1]>>
    ELSE Append(DigitsOf(n \div 10), Digits[(n % 10) + 1])

\* the value of a string of decimal digits
RECURSIVE DigitsValue(_)
DigitsValue(s) ==
    IF s = <<>> THEN 0
    ELSE 10 * DigitsValue(SubSeq(s, 1, Len(s) - 1)) + (IndexIn(Digits, s[Len(s)]) - 1)

DigitChars == Range(Digits)

IsSpace(c) == c \in {" ", "\t"}

\* String.prototype.trim
RECURSIVE Trim(_)
Trim(s) ==
    IF s = <<>> THEN s
    ELSE IF IsSpace(Head(s)) THEN Trim(Tail(s))
    ELSE IF IsSpace(s[Len(s)]) THEN Trim(SubSeq(s, 1, Len(s) - 1))
    ELSE s

(***************************************************************************)
(* The regular expression /\.[^/.]+$/ of the export names and of           *)
(* processPendingFile: the last dot of the name, when at least one         *)
(* character follows it and none of the characters after it is a slash.    *)
(***************************************************************************)
ExtStart(name) ==
    LET starts == {i \in 1..Len(name) :
                      /\ name[i] = "."
                      /\ i < Len(name)
                      /\ \A j \in (i + 1)..Len(name) : name[j] \notin {"/", "."}}
    IN  IF starts = {} THEN 0 ELSE CHOOSE i \in starts : TRUE

\* name.match(/\.[^/.]+$/): the matched text, or <<>> when there is no match
ExtMatch(name) ==
    IF ExtStart(name) = 0 THEN <<>> ELSE SubSeq(name, ExtStart(name), Len(name))

\* name.replace(/\.[^/.]+$/, "")
StripExt(name) ==
    IF ExtStart(name) = 0 THEN name ELSE SubSeq(name, 1, ExtStart(name) - 1)

(***************************************************************************)
(* JavaScript values.  Every value is a record of one shape: t is the      *)
(* kind, n the number of a number, bigint or boolean (1 for true), s the   *)
(* text of a string and items the members of a nested object or array, a   *)
(* sequence of <<key, number>> pairs (the key is "" in an array).          *)
(***************************************************************************)
Str(s) == [t |-> "string", n |-> 0, s |-> s, items |-> <<>>]
Num(n) == [t |-> "number", n |-> n, s |-> <<>>, items |-> <<>>]
BigInt(n) == [t |-> "bigint", n |-> n, s |-> <<>>, items |-> <<>>]
Bool(b) == [t |-> "boolean", n |-> IF b THEN 1 ELSE 0, s |-> <<>>, items |-> <<>>]
Null == [t |-> "null", n |-> 0, s |-> <<>>, items |-> <<>>]
Undefined == [t |-> "undefined", n |-> 0, s |-> <<>>, items |-> <<>>]
Obj(items) == [t |-> "object", n |-> 0, s |-> <<>>, items |-> items]
Arr(nums) == [t |-> "array", n |-> 0, s |-> <<>>,
              items |-> [i \in 1..Len(nums) |-> <<"", nums[i]>>]]

EmptyStr == Str(<<>>)

\* typeof val === 'object' && val !== null
IsNonNullObject(v) == v.t \in {"object", "array"}

\* String(val) for a value that is not an object
JsString(v) ==
    CASE v.t = "string" -> v.s
      [] v.t = "number" -> DigitsOf(v.n)
      [] v.t = "bigint" -> DigitsOf(v.n)
      [] v.t = "boolean" -> IF v.n = 1 THEN <<"t", "r", "u", "e">>
                                     ELSE <<"f", "a", "l", "s", "e">>
      [] v.t = "null" -> <<"n", "u", "l", "l">>
      [] v.t = "undefined" -> <<"u", "n", "d", "e", "f", "i", "n", "e", "d">>

\* isNaN(Number(val)): a string converts when, trimmed, it is empty or all
\* decimal digits (the strings of the model carry no sign, point or exponent)
NumberIsNaN(v) ==
    CASE v.t = "string" -> LET text == Trim(v.s)
                           IN  \E i \in 1..Len(text) : text[i] \notin DigitChars
      [] v.t = "undefined" -> TRUE
      [] OTHER -> FALSE

\* Number(val), for a value that converts
NumberOf(v) ==
    CASE v.t = "string" -> DigitsValue(Trim(v.s))
      [] v.t = "null" -> 0
      [] OTHER -> v.n

\* JSON.stringify of a nested object or array with number members
RECURSIVE JoinItems(_, _)
JoinItems(items, isObject) ==
    IF items = <<>> THEN <<>>
    ELSE LET key == IF isObject THEN <<"\"", items[1][1], "\"", ":">> ELSE <<>>
             one == key \o DigitsOf(items[1][2])
         IN  IF Len(items) = 1 THEN one
             ELSE one \o <<",">> \o JoinItems(Tail(items), isObject)

JsonStringifyValue(v) ==
    IF v.t = "object" THEN <<"{">> \o JoinItems(v.items, TRUE) \o <<"}">>
    ELSE <<"[">> \o JoinItems(v.items, FALSE) \o <<"]">>

(***************************************************************************)
(* Rows.  A row object is a record: ref is the identity of the object      *)
(* (data.indexOf compares references) and cells its own properties in      *)
(* insertion order, a sequence of <<key, value>> pairs.                    *)
(***************************************************************************)
\* Object.keys(row)
Keys(cells) == [i \in 1..Len(cells) |-> cells[i][1]]

\* row[key]: undefined when the row has no such property
Get(cells, key) ==
    IF \E i \in 1..Len(cells) : cells[i][1] = key
    THEN cells[CHOOSE i \in 1..Len(cells) : cells[i][1] = key][2]
    ELSE Undefined

\* { ...row, [key]: value }
Put(cells, key, value) ==
    IF \E i \in 1..Len(cells) : cells[i][1] = key
    THEN [i \in 1..Len(cells) |->
             IF cells[i][1] = key THEN <<key, value>> ELSE cells[i]]
    ELSE Append(cells, <<key, value>>)

\* the rows a parser or an import builds are fresh objects
WithRefs(rowCells) == [i \in 1..Len(rowCells) |-> [ref |-> i, cells |-> rowCells[i]]]

(***************************************************************************)
(* The state of the component.                                             *)
(***************************************************************************)
VARIABLES
    \* useState (page.js 59-86); loadingMsg and dragActive are only displayed
    data, columns, fileName, fileType, loading, error, searchTerm,
    showExportMenu, pendingFile, importDelimiter, customExtension,
    forceCustomConfig, showEmptyStats, currentPage, rowsPerPage, sortConfig,
    hoveredColumn, copiedColumn,
    \* useRef (page.js 87-94)
    hoverTimeoutRef, leaveTimeoutRef, papaRef, hyparquetRef, arrowRef,
    parquetWasmRef,
    \* the browser: timers that are set and have not fired, the position of
    \* the library loading effect, the parses in flight, the run of
    \* exportParquet, the File objects handed out so far
    timers, initPc, parses, exportRun, uploads,
    \* the column header under the mouse pointer
    pointer,
    \* the parse whose callback put the present rows into data
    loadedBy,
    \* the observable effects of the last handler that ran: its name ("grid"
    \* for the handlers of the grid, which have none), the parser function it
    \* called, the names of the files it downloaded, the answer given to
    \* window.confirm, the URLs it requested from the network
    lastOp, out,
    \* the number of cell edits so far (bounded by MaxEdits)
    editCount

gridVars == <<searchTerm, showEmptyStats, currentPage, rowsPerPage, sortConfig>>
fileVars == <<fileName, fileType, loading, error, pendingFile, importDelimiter,
              customExtension, forceCustomConfig>>
hoverVars == <<hoveredColumn, copiedColumn, hoverTimeoutRef, leaveTimeoutRef, timers,
               pointer>>
libVars == <<papaRef, hyparquetRef, arrowRef, parquetWasmRef, initPc>>
vars == <<data, columns, gridVars, fileVars, hoverVars, libVars, showExportMenu,
          parses, exportRun, uploads, loadedBy, lastOp, out, editCount>>

\* null, for the state that holds a string or null
NULL == "<null>"
\* null, for the state that holds text or null
NullText == <<"<null>">>
\* null, for pendingFile; a File object is its identity and its file
NoFile == [id |-> 0, f |-> 0]

\* no parse, for loadedBy
NoParse == [id |-> 0, f |-> 0, kind |-> "none", delimiter |-> NullText]

NoEffects == [parser |-> "none", file |-> 0, delimiter |-> NullText,
              downloads |-> <<>>, confirm |-> "none", requests |-> <<>>]

\* the URLs the code hands to loadScript, to loadModule and to the
\* initialiser of the WASM writer (page.js 101, 105, 542, 546, 547)
Url_papa == "https://cdnjs.cloudflare.com/ajax/libs/PapaParse/5.4.1/papaparse.min.js"
Url_hyparquet == "https://cdn.jsdelivr.net/npm/hyparquet/+esm"
Url_arrow == "https://cdn.jsdelivr.net/npm/apache-arrow@13.0.0/+esm"
Url_parquetWasm == "https://cdn.jsdelivr.net/npm/parquet-wasm@0.6.1/esm/parquet_wasm.js"
Url_parquetWasmBinary ==
    "https://cdn.jsdelivr.net/npm/parquet-wasm@0.6.1/esm/parquet_wasm_bg.wasm"

\* the options of the rows-per-page select (page.js 1125)
RowsPerPageOptions == {50, 100, 250, 500, 1000}

(***************************************************************************)
(* Render logic (page.js 627-671).                                         *)
(***************************************************************************)
\* a match against the term as typed, not lower-cased
RowMatchesCase(row, term) ==
    \E i \in 1..Len(row.cells) :
        Includes(ToLowerCase(JsString(row.cells[i][2])), term)

\* the callback of data.filter (page.js 628-632)
RowMatches(row, term) ==
    \E i \in 1..Len(row.cells) :
        Includes(ToLowerCase(JsString(row.cells[i][2])), ToLowerCase(term))

\* Array.prototype.filter keeps the elements that pass, in their order
Filter(rows, term) ==
    LET Passes(row) == RowMatches(row, term)
    IN  SelectSeq(rows, Passes)

\* filteredData (page.js 627-633, part_000 308-312)
FilteredData == Filter(data, searchTerm)

\* the comparison function of the sort (page.js 638-660): -1, 0 or 1
Compare(a, b, cfg) ==
    LET aValue == Get(a.cells, cfg.key)
        bValue == Get(b.cells, cfg.key)
        numeric == /\ ~NumberIsNaN(aValue)
                   /\ ~NumberIsNaN(bValue)
                   /\ aValue # EmptyStr
                   /\ bValue # EmptyStr
        less == IF numeric THEN NumberOf(aValue) < NumberOf(bValue)
                ELSE StrLess(ToLowerCase(JsString(aValue)), ToLowerCase(JsString(bValue)))
        greater == IF numeric THEN NumberOf(aValue) > NumberOf(bValue)
                   ELSE StrLess(ToLowerCase(JsString(bValue)), ToLowerCase(JsString(aValue)))
    IN  IF less THEN (IF cfg.direction = "asc" THEN -1 ELSE 1)
        ELSE IF greater THEN (IF cfg.direction = "asc" THEN 1 ELSE -1)
        ELSE 0

\* Array.prototype.sort is a stable sort: a merge sort.  Merging two sorted
\* runs puts an element of the right run before an element of the left run
\* only when it compares smaller; the left run is halved at its middle
\* element m and the right run cut after its leading elements that compare
\* before m, which keeps the evaluation shallow.  For a comparison function
\* that is not consistent the order of the result is implementation-defined;
\* the result is a permutation of the rows in every case.
Leading(r, m, cfg) ==
    LET stops == {j \in 1..Len(r) : Compare(r[j], m, cfg) >= 0}
    IN  IF stops = {} THEN Len(r)
        ELSE (CHOOSE j \in stops : \A i \in stops : j <= i) - 1

RECURSIVE Merge(_, _, _)
Merge(l, r, cfg) ==
    IF l = <<>> THEN r
    ELSE IF r = <<>> THEN l
    ELSE LET mid == (Len(l) + 1) \div 2
             cut == Leading(r, l[mid], cfg)
         IN  Merge(SubSeq(l, 1, mid - 1), SubSeq(r, 1, cut), cfg)
                 \o <<l[mid]>>
                 \o Merge(SubSeq(l, mid + 1, Len(l)), SubSeq(r, cut + 1, Len(r)), cfg)

RECURSIVE SortRows(_, _)
SortRows(rows, cfg) ==
    IF Len(rows) <= 1 THEN rows
    ELSE LET mid == Len(rows) \div 2
         IN  Merge(SortRows(SubSeq(rows, 1, mid), cfg),
                   SortRows(SubSeq(rows, mid + 1, Len(rows)), cfg), cfg)

\* sortedData (page.js 635-663)
SortedOf(rows, cfg) == IF cfg.key # NULL THEN SortRows(rows, cfg) ELSE rows

SortedData == SortedOf(FilteredData, sortConfig)

\* a page count rounded down, Math.floor(length / perPage)
PagesOfFloor(length, perPage) == length \div perPage

\* Math.ceil(length / perPage)
PagesOf(length, perPage) == (length + perPage - 1) \div perPage

\* totalPages (page.js 665)
TotalPages == PagesOf(Len(SortedData), rowsPerPage)

\* Array.prototype.slice(from, to), 0 <= from
Slice(rows, from, to) ==
    IF from >= Len(rows) \/ to <= from THEN <<>>
    ELSE SubSeq(rows, from + 1, IF to < Len(rows) THEN to ELSE Len(rows))

\* the rows of page p of the sorted rows (page.js 666-669)
PageRows(rows, p, perPage) == Slice(rows, (p - 1) * perPage, p * perPage)

\* currentRows (page.js 666-669)
CurrentRows == PageRows(SortedData, currentPage, rowsPerPage)

\* isHome (page.js 671)
IsHome == Len(data) = 0

(***************************************************************************)
(* The grid: search, sort, paging and cell editing.  The toolbar, the      *)
(* table and the pagination bar are rendered only while data is not empty  *)
(* (page.js 835, 912).  The loading overlay (page.js 917-922) and the      *)
(* import-settings modal (page.js 769-770) cover the main area, so what is *)
(* clicked needs them gone; what is typed goes to the focused input.       *)
(***************************************************************************)
MainCovered == loading \/ pendingFile # NoFile

Min(a, b) == IF a < b THEN a ELSE b
Max(a, b) == IF a > b THEN a ELSE b

\* search input onChange (page.js 933-936)
SetSearchTerm(term) ==
    /\ ~IsHome
    /\ searchTerm' = term
    /\ currentPage' = 1
    /\ lastOp' = "grid"
    /\ out' = NoEffects
    /\ UNCHANGED <<data, columns, showEmptyStats, rowsPerPage, sortConfig, fileVars,
                   hoverVars, libVars, showExportMenu, parses, exportRun, uploads, loadedBy,
                   editCount>>

\* a header that toggles between the two directions
NextSortConfigToggle(cfg, key) ==
    IF cfg.key = key /\ cfg.direction = "asc" THEN [key |-> key, direction |-> "desc"]
    ELSE [key |-> key, direction |-> "asc"]

\* the sortConfig that handleSort sets (page.js 250-263)
NextSortConfig(cfg, key) ==
    IF cfg.key = key
    THEN IF cfg.direction = "asc" THEN [key |-> key, direction |-> "desc"]
         ELSE IF cfg.direction = "desc" THEN [key |-> NULL, direction |-> "asc"]
         ELSE [key |-> key, direction |-> "asc"]
    ELSE [key |-> key, direction |-> "asc"]

\* a header click that sorts the rows of data themselves
HandleSortInPlace(key) ==
    /\ ~IsHome
    /\ ~MainCovered
    /\ key \in Range(columns)
    /\ sortConfig' = NextSortConfig(sortConfig, key)
    /\ data' = SortedOf(data, NextSortConfig(sortConfig, key))
    /\ lastOp' = "grid"
    /\ out' = NoEffects
    /\ UNCHANGED <<columns, searchTerm, showEmptyStats, currentPage, rowsPerPage,
                   fileVars, hoverVars, libVars, showExportMenu, parses, exportRun,
                   uploads, loadedBy, editCount>>

\* handleSort (page.js 250-264), the onClick of a column header (page.js 972)
HandleSort(key) ==
    /\ ~IsHome
    /\ ~MainCovered
    /\ key \in Range(columns)
    /\ sortConfig' = NextSortConfig(sortConfig, key)
    /\ lastOp' = "grid"
    /\ out' = NoEffects
    /\ UNCHANGED <<data, columns, searchTerm, showEmptyStats, currentPage, rowsPerPage,
                   fileVars, hoverVars, libVars, showExportMenu, parses, exportRun,
                   uploads, loadedBy, editCount>>

\* rows-per-page select onChange (page.js 1119-1122)
SetRowsPerPage(n) ==
    /\ ~IsHome
    /\ ~MainCovered
    /\ n \in RowsPerPageOptions
    /\ rowsPerPage' = n
    /\ currentPage' = 1
    /\ lastOp' = "grid"
    /\ out' = NoEffects
    /\ UNCHANGED <<data, columns, searchTerm, showEmptyStats, sortConfig, fileVars,
                   hoverVars, libVars, showExportMenu, parses, exportRun, uploads, loadedBy,
                   editCount>>

\* what a pagination control leaves alone
PageFrame ==
    /\ out' = NoEffects
    /\ UNCHANGED <<data, columns, searchTerm, showEmptyStats, rowsPerPage, sortConfig,
                   fileVars, hoverVars, libVars, showExportMenu, parses, exportRun,
                   uploads, loadedBy, editCount>>

\* First Page button (page.js 1137-1145)
FirstPage ==
    /\ ~IsHome /\ ~MainCovered
    /\ currentPage # 1
    /\ currentPage' = 1
    /\ lastOp' = "grid"
    /\ PageFrame

\* Previous Page button (page.js 1146-1154)
PrevPage ==
    /\ ~IsHome /\ ~MainCovered
    /\ currentPage # 1
    /\ currentPage' = Max(currentPage - 1, 1)
    /\ lastOp' = "grid"
    /\ PageFrame

\* Next Page button (page.js 1182-1190)
NextPage ==
    /\ ~IsHome /\ ~MainCovered
    /\ ~(currentPage = TotalPages \/ TotalPages = 0)
    /\ currentPage' = Min(currentPage + 1, TotalPages)
    /\ lastOp' = "grid"
    /\ PageFrame

\* Last Page button (page.js 1191-1199)
LastPage ==
    /\ ~IsHome /\ ~MainCovered
    /\ ~(currentPage = TotalPages \/ TotalPages = 0)
    /\ currentPage' = TotalPages
    /\ lastOp' = "grid"
    /\ PageFrame

\* page-number input onChange with a whole number typed (page.js 1164-1172)
PageInput(num) ==
    /\ ~IsHome
    /\ currentPage' = IF num >= 1 /\ num <= TotalPages THEN num ELSE currentPage
    /\ lastOp' = "grid"
    /\ PageFrame

\* data.indexOf(row): the first index holding that object, 0 for -1
IndexOfRow(rows, row) ==
    IF \E i \in 1..Len(rows) : rows[i].ref = row.ref
    THEN CHOOSE i \in 1..Len(rows) :
             /\ rows[i].ref = row.ref
             /\ \A j \in 1..(i - 1) : rows[j].ref # row.ref
    ELSE 0

\* the index of the page arithmetic: the position on the page, offset by the
\* pages before it
EditIndexByPosition(k) == (currentPage - 1) * rowsPerPage + k

\* the index of data that the cell input of page.js writes to (page.js 1083)
EditIndex(k) == IndexOfRow(data, CurrentRows[k])

\* cell input onChange (page.js 1081-1089): typing value into column col of
\* the k-th displayed row.  The copy that replaces the row takes its place
\* in data, and with it its identity among the rows of data.
CellEdit(k, col, value) ==
    /\ ~IsHome
    /\ editCount < MaxEdits
    /\ k \in 1..Len(CurrentRows)
    /\ col \in Range(columns)
    /\ LET rowIndexInData == EditIndex(k)
       IN  data' = IF rowIndexInData > 0
                   THEN [data EXCEPT ![rowIndexInData].cells =
                            Put(data[rowIndexInData].cells, col, Str(value))]
                   ELSE data
    /\ editCount' = editCount + 1
    /\ lastOp' = "grid"
    /\ out' = NoEffects
    /\ UNCHANGED <<columns, gridVars, fileVars, hoverVars, libVars, showExportMenu,
                   parses, exportRun, uploads, loadedBy>>

(***************************************************************************)
(* The statistics tooltip of a column header.  A timer is the id that      *)
(* setTimeout returned, what its callback does and the column the callback *)
(* closes over; an id is never handed out twice, so the id of a new timer  *)
(* differs from the ids of the pending timers and from the ids the two     *)
(* refs still hold.  The browser delivers mouseenter and mouseleave of the *)
(* headers in turn, and none to a covered header.                          *)
(***************************************************************************)
\* setTimeout: the id of the timer it creates
NewTimer(pending) ==
    CHOOSE id \in 1..(Cardinality(pending) + 3) :
        /\ id \notin {t.id : t \in pending} \cup {hoverTimeoutRef, leaveTimeoutRef}
        /\ \A other \in 1..(id - 1) :
               other \in {t.id : t \in pending} \cup {hoverTimeoutRef, leaveTimeoutRef}

\* what the handlers of the tooltip leave alone
HoverFrame ==
    /\ lastOp' = "hover"
    /\ out' = NoEffects
    /\ UNCHANGED <<data, columns, gridVars, fileVars, libVars, showExportMenu, parses,
                   exportRun, uploads, loadedBy, editCount>>

\* handleMouseEnterColumn (page.js 266-283), onMouseEnter of a header
\* (page.js 973)
HandleMouseEnterColumn(col) ==
    /\ ~IsHome
    /\ ~MainCovered
    /\ col \in Range(columns)
    /\ pointer = NULL
    /\ pointer' = col
    /\ leaveTimeoutRef' = 0
    /\ LET cleared == {t \in timers : t.id \notin {leaveTimeoutRef, hoverTimeoutRef}}
       IN  IF hoveredColumn = col
           THEN /\ timers' = cleared
                /\ UNCHANGED hoverTimeoutRef
           ELSE /\ timers' = cleared \cup
                                {[id |-> NewTimer(cleared), kind |-> "open", col |-> col]}
                /\ hoverTimeoutRef' = NewTimer(cleared)
    /\ UNCHANGED <<hoveredColumn, copiedColumn>>
    /\ HoverFrame

\* a mouseleave that leaves the 1000 ms timer running
HandleMouseLeaveColumnKeepsTimer ==
    /\ pointer # NULL
    /\ pointer' = NULL
    /\ timers' = timers \cup {[id |-> NewTimer(timers), kind |-> "close", col |-> NULL]}
    /\ leaveTimeoutRef' = NewTimer(timers)
    /\ UNCHANGED <<hoveredColumn, copiedColumn, hoverTimeoutRef>>
    /\ HoverFrame

\* handleMouseLeaveColumn (page.js 285-296), onMouseLeave of a header
\* (page.js 974)
HandleMouseLeaveColumn ==
    /\ pointer # NULL
    /\ pointer' = NULL
    /\ LET cleared == {t \in timers : t.id # hoverTimeoutRef}
       IN  /\ timers' = cleared \cup
                           {[id |-> NewTimer(cleared), kind |-> "close", col |-> NULL]}
           /\ leaveTimeoutRef' = NewTimer(cleared)
    /\ UNCHANGED <<hoveredColumn, copiedColumn, hoverTimeoutRef>>
    /\ HoverFrame

\* the callback of the 1000 ms timer (page.js 280-282)
HoverTimerFires(t) ==
    /\ t \in timers
    /\ t.kind = "open"
    /\ hoveredColumn' = t.col
    /\ timers' = timers \ {t}
    /\ UNCHANGED <<copiedColumn, hoverTimeoutRef, leaveTimeoutRef, pointer>>
    /\ HoverFrame

\* a 300 ms timer that closes the tooltip and keeps the copy feedback
LeaveTimerFiresKeepsCopied(t) ==
    /\ t \in timers
    /\ t.kind = "close"
    /\ hoveredColumn' = NULL
    /\ timers' = timers \ {t}
    /\ UNCHANGED <<copiedColumn, hoverTimeoutRef, leaveTimeoutRef, pointer>>
    /\ HoverFrame

\* the callback of the 300 ms timer (page.js 292-295)
LeaveTimerFires(t) ==
    /\ t \in timers
    /\ t.kind = "close"
    /\ hoveredColumn' = NULL
    /\ copiedColumn' = NULL
    /\ timers' = timers \ {t}
    /\ UNCHANGED <<hoverTimeoutRef, leaveTimeoutRef, pointer>>
    /\ HoverFrame

\* val === null || val === undefined || val === '' (page.js 126, 1064)
IsEmptyValue(val) == val.t \in {"null", "undefined"} \/ val = EmptyStr

\* the rows lo..hi of rows that add one to counts[col] (page.js 123-130)
RECURSIVE EmptyCount(_, _, _, _)
EmptyCount(rows, col, lo, hi) ==
    IF lo > hi THEN 0
    ELSE IF lo = hi
    THEN IF IsEmptyValue(Get(rows[lo].cells, col)) THEN 1 ELSE 0
    ELSE LET mid == (lo + hi) \div 2
         IN  EmptyCount(rows, col, lo, mid) + EmptyCount(rows, col, mid + 1, hi)

\* counts taken over the rows that pass the search
EmptyCellCountsFiltered ==
    IF ~showEmptyStats THEN [col \in {} |-> 0]
    ELSE [col \in Range(columns) |-> EmptyCount(FilteredData, col, 1, Len(FilteredData))]

\* emptyCellCounts (page.js 117-132): no entry while the toggle is off
EmptyCellCounts ==
    IF ~showEmptyStats THEN [col \in {} |-> 0]
    ELSE [col \in Range(columns) |-> EmptyCount(data, col, 1, Len(data))]

\* the number in the badge of a header (page.js 986-991), which is rendered
\* only while the toggle is on
EmptyBadge(col) ==
    IF ~showEmptyStats THEN NULL
    ELSE IF col \in DOMAIN EmptyCellCounts /\ EmptyCellCounts[col] > 0
    THEN EmptyCellCounts[col]
    ELSE 0

\* isEmpty (page.js 1062-1064): the cell is highlighted
IsEmptyCell(row, col) == showEmptyStats /\ IsEmptyValue(Get(row.cells, col))

\* the values that the || of cellValue || '' replaces (page.js 1075): null,
\* undefined, '', 0, 0n and false
IsFalsy(val) ==
    \/ val.t \in {"null", "undefined"}
    \/ val = EmptyStr
    \/ (val.t \in {"number", "bigint"} /\ val.n = 0)
    \/ (val.t = "boolean" /\ val.n = 0)

\* the text of the input of a cell, value={cellValue || ''} (page.js 1075)
CellText(val) == IF IsFalsy(val) THEN <<>> ELSE JsString(val)

\* 'Highlight Empty' button onClick (page.js 945)
ToggleEmptyStats ==
    /\ ~IsHome
    /\ ~MainCovered
    /\ showEmptyStats' = ~showEmptyStats
    /\ lastOp' = "grid"
    /\ out' = NoEffects
    /\ UNCHANGED <<data, columns, searchTerm, currentPage, rowsPerPage, sortConfig,
                   fileVars, hoverVars, libVars, showExportMenu, parses, exportRun,
                   uploads, loadedBy, editCount>>

(***************************************************************************)
(* activeColumnStats (page.js 135-228), the statistics of the hovered      *)
(* column.  A timestamp is a number of milliseconds; the mean and the      *)
(* median are kept as the fraction the code divides out, meanVal and       *)
(* medianVal, which the tooltip shows through toLocaleString.              *)
(***************************************************************************)
\* val !== null && val !== undefined && val !== '' (page.js 145)
HasValue(v) == v.t \notin {"null", "undefined"} /\ v # EmptyStr

IsDigits(s) == \A i \in 1..Len(s) : s[i] \in DigitChars

IsLeapYear(y) == (y % 4 = 0 /\ y % 100 # 0) \/ y % 400 = 0

DaysInMonth(y, m) ==
    IF m = 2 THEN (IF IsLeapYear(y) THEN 29 ELSE 28)
    ELSE IF m \in {4, 6, 9, 11} THEN 30 ELSE 31

\* the day number of a date of the proleptic Gregorian calendar, day 0
\* being 1970-01-01
DaysFromCivil(y, m, d) ==
    LET yy == IF m <= 2 THEN y - 1 ELSE y
        era == yy \div 400
        yoe == yy - era * 400
        doy == (153 * (IF m > 2 THEN m - 3 ELSE m + 9) + 2) \div 5 + d - 1
        doe == yoe * 365 + yoe \div 4 - yoe \div 100 + doy
    IN  era * 146097 + doe - 719468

MsPerDay == 86400000

\* the date-only forms YYYY-MM-DD and YYYY-MM of the date-time string format
IsIsoDate(s) ==
    /\ Len(s) \in {7, 10}
    /\ IsDigits(SubSeq(s, 1, 4)) /\ s[5] = "-" /\ IsDigits(SubSeq(s, 6, 7))
    /\ DigitsValue(SubSeq(s, 6, 7)) \in 1..12
    /\ Len(s) = 10 =>
           /\ s[8] = "-" /\ IsDigits(SubSeq(s, 9, 10))
           /\ DigitsValue(SubSeq(s, 9, 10)) \in
                  1..DaysInMonth(DigitsValue(SubSeq(s, 1, 4)), DigitsValue(SubSeq(s, 6, 7)))

\* isNaN(Date.parse(val)) (page.js 152-153).  The strings of the model that
\* are not in a date-only form hold no month name, time or zone, and no
\* engine reads a date from them.
DateParseIsNaN(v) == ~IsIsoDate(JsString(v))

\* Date.parse(val), for a value that parses: UTC midnight of the day
DateParse(v) ==
    LET s == JsString(v)
    IN  MsPerDay * DaysFromCivil(DigitsValue(SubSeq(s, 1, 4)), DigitsValue(SubSeq(s, 6, 7)),
                                 IF Len(s) = 10 THEN DigitsValue(SubSeq(s, 9, 10)) ELSE 1)

\* row[hoveredColumn] of every row (page.js 142-143)
ColumnValues(rows, col) == [i \in 1..Len(rows) |-> Get(rows[i].cells, col)]

IsNumericValue(v) == HasValue(v) /\ ~NumberIsNaN(v)
IsDateValue(v) == HasValue(v) /\ NumberIsNaN(v) /\ ~DateParseIsNaN(v)

\* numericValues and dateValues after the pass over data (page.js 138-158)
NumericValues(rows, col) ==
    LET kept == SelectSeq(ColumnValues(rows, col), IsNumericValue)
    IN  [i \in 1..Len(kept) |-> NumberOf(kept[i])]

DateValues(rows, col) ==
    LET kept == SelectSeq(ColumnValues(rows, col), IsDateValue)
    IN  [i \in 1..Len(kept) |-> DateParse(kept[i])]

\* a tie of the two counts makes the column a date column
IsDateColumnOnTie(dates, numbers) == dates >= numbers

\* isDateColumn (page.js 161)
IsDateColumn(dates, numbers) == dates > numbers

\* values.reduce((a, b) => a + b, 0) (page.js 167)
RECURSIVE SumOf(_, _, _)
SumOf(values, from, to) ==
    IF from > to THEN 0
    ELSE IF from = to THEN values[from]
    ELSE SumOf(values, from, (from + to) \div 2) + SumOf(values, (from + to) \div 2 + 1, to)

\* values.sort((a, b) => a - b) (page.js 171): every value at the place its
\* rank gives it
SortNumbers(values) ==
    LET place(i) == 1 + Cardinality({j \in 1..Len(values) : values[j] < values[i]})
                      + Cardinality({j \in 1..(i - 1) : values[j] = values[i]})
    IN  [k \in 1..Len(values) |-> values[CHOOSE i \in 1..Len(values) : place(i) = k]]

\* null, for activeColumnStats
NoStats == [columnName |-> NULL, type |-> "none", count |-> 0,
            meanVal |-> [num |-> 0, den |-> 1], medianVal |-> [num |-> 0, den |-> 1]]

\* the statistics of column col of rows (page.js 135-173, 217-226)
ActiveColumnStatsOf(rows, col) ==
    IF col \in {NULL, ""} \/ Len(rows) = 0 THEN NoStats
    ELSE LET numericValues == NumericValues(rows, col)
             dateValues == DateValues(rows, col)
             isDateColumn == IsDateColumn(Len(dateValues), Len(numericValues))
             values == IF isDateColumn THEN dateValues ELSE numericValues
             sorted == SortNumbers(values)
             mid == Len(values) \div 2
         IN  IF Len(values) = 0 THEN NoStats
             ELSE [columnName |-> col,
                   type |-> IF isDateColumn THEN "Date" ELSE "Numeric",
                   count |-> Len(values),
                   meanVal |-> [num |-> SumOf(values, 1, Len(values)), den |-> Len(values)],
                   medianVal |-> IF Len(values) % 2 # 0
                                 THEN [num |-> sorted[mid + 1], den |-> 1]
                                 ELSE [num |-> sorted[mid] + sorted[mid + 1], den |-> 2]]

ActiveColumnStats == ActiveColumnStatsOf(data, hoveredColumn)

\* the values of the chosen type, sorted (page.js 162, 171)
SortedValuesOf(rows, col) ==
    LET numericValues == NumericValues(rows, col)
        dateValues == DateValues(rows, col)
    IN  SortNumbers(IF IsDateColumn(Len(dateValues), Len(numericValues))
                    THEN dateValues ELSE numericValues)

\* freq[n] after the loop over the values (page.js 191-194)
Freq(values, n) == Cardinality({i \in 1..Len(values) : values[i] = n})

\* maxFreq after the loop (page.js 190-194)
MaxFreq(values) ==
    IF values = <<>> THEN 0
    ELSE LET freq == [i \in 1..Len(values) |-> Freq(values, values[i])]
         IN  freq[CHOOSE i \in 1..Len(values) : \A j \in 1..Len(values) : freq[j] <= freq[i]]

\* Object.keys(freq) (page.js 198): the keys that are array indices, the
\* integers from 0 on, in ascending order, then the other keys in the order
\* in which the loop over the sorted values created them
FreqKeys(values) ==
    LET IsFirst(i) == \A j \in 1..(i - 1) : values[j] # values[i]
        firsts == SelectSeq([i \in 1..Len(values) |-> i], IsFirst)
        distinct == [k \in 1..Len(firsts) |-> values[firsts[k]]]
        IsIndex(n) == n >= 0
        IsOther(n) == n < 0
    IN  SelectSeq(distinct, IsIndex) \o SelectSeq(distinct, IsOther)

\* a mode label that shows every mode, however many there are
ModesShownAll(modes) == modes

\* the modes that are displayed (page.js 200-204): three at most
ModesShown(modes) == IF Len(modes) > 3 THEN SubSeq(modes, 1, 3) ELSE modes

\* v.toLocaleString(undefined, { maximumFractionDigits: 2 }) (page.js 201,
\* 203) of an integer from 0 to 999, which has no fraction and no group
\* separator, written with the digits 0 to 9
LocaleString(v) == DigitsOf(v)

\* Array.prototype.join(', ') of the formatted modes (page.js 201, 203)
RECURSIVE JoinModes(_)
JoinModes(modes) ==
    IF modes = <<>> THEN <<>>
    ELSE IF Len(modes) = 1 THEN LocaleString(modes[1])
    ELSE LocaleString(modes[1]) \o <<",", " ">> \o JoinModes(Tail(modes))

\* modeLabel of a numeric column (page.js 188-205) from the sorted values
ModeLabelOf(values) ==
    LET maxFreq == MaxFreq(values)
        IsMode(k) == Freq(values, k) = maxFreq
        modes == SelectSeq(FreqKeys(values), IsMode)
    IN  IF maxFreq > 1
        THEN IF Len(modes) > 3
             THEN JoinModes(ModesShown(modes)) \o <<".", ".", ".">>
             ELSE JoinModes(ModesShown(modes))
        ELSE <<"N", "o", "n", "e">>

\* the mode, min and max of activeColumnStats (page.js 175-205, 222-224):
\* of a date column the smallest and the largest timestamp, which are shown
\* as the dates of the time zone of the browser, and no mode; of a numeric
\* column the mode label, and no min and max
ActiveColumnModeOf(rows, col) ==
    LET values == SortedValuesOf(rows, col)
        numericValues == NumericValues(rows, col)
        dateValues == DateValues(rows, col)
    IN  IF IsDateColumn(Len(dateValues), Len(numericValues))
        THEN [mode |-> NullText, hasRange |-> TRUE,
              minVal |-> values[1], maxVal |-> values[Len(values)]]
        ELSE [mode |-> ModeLabelOf(values), hasRange |-> FALSE, minVal |-> 0, maxVal |-> 0]

ActiveColumnMode == ActiveColumnModeOf(data, hoveredColumn)

\* handleCopyStats (page.js 298-329), the onClick of the copy button of the
\* tooltip (page.js 1008), which is rendered inside the header it belongs
\* to (page.js 995): the statistics go to the clipboard, and when the write
\* went through copiedColumn is set and a 2000 ms timer is started that
\* resets it.  A rejected write (page.js 315) sets nothing.
HandleCopyStats(written) ==
    /\ ~IsHome
    /\ ~MainCovered
    /\ hoveredColumn # NULL
    /\ pointer = hoveredColumn
    /\ hoveredColumn \in Range(columns)
    /\ ActiveColumnStats # NoStats
    /\ Cardinality({t \in timers : t.kind = "uncopy"}) < MaxCopies
    /\ IF written
       THEN /\ copiedColumn' = ActiveColumnStats.columnName
            /\ timers' = timers \cup
                            {[id |-> NewTimer(timers), kind |-> "uncopy", col |-> NULL]}
       ELSE UNCHANGED <<copiedColumn, timers>>
    /\ UNCHANGED <<hoveredColumn, hoverTimeoutRef, leaveTimeoutRef, pointer>>
    /\ HoverFrame

\* the callback of the 2000 ms timer (page.js 317, 327)
CopyTimerFires(t) ==
    /\ t \in timers
    /\ t.kind = "uncopy"
    /\ copiedColumn' = NULL
    /\ timers' = timers \ {t}
    /\ UNCHANGED <<hoveredColumn, hoverTimeoutRef, leaveTimeoutRef, pointer>>
    /\ HoverFrame

(***************************************************************************)
(* The files the user can pick.  A file is its name and what each of the   *)
(* three readers makes of its bytes: papa is the outcome of Papa.parse     *)
(* (the error callback, or results.data), json the outcome of JSON.parse   *)
(* (invalid text, a value that is no array, or the elements of the array), *)
(* parquet the outcome of hyparquet's parquetRead (a throw, or the rows    *)
(* given to onComplete).  An element of a JSON array is an object with its *)
(* cells, null or a number.                                                *)
(***************************************************************************)
Cell(key, value) == <<key, value>>

\* the number of elements whose keys make the columns (page.js 420)
SampleSize == 100

Element(cells) == [t |-> "object", cells |-> cells]
NullElement == [t |-> "null", cells |-> <<>>]
NumberElement == [t |-> "number", cells |-> <<>>]

NoPapa == [error |-> TRUE, rows |-> <<>>]
NoJson == [valid |-> FALSE, array |-> FALSE, elems |-> <<>>]
NoParquet == [ok |-> FALSE, rows |-> <<>>]

\* what Papa.parse makes of a file that is not delimited text: one column
JunkRows == [error |-> FALSE, rows |-> << <<Cell("x", Str(<<"1">>))>> >>]

\* a delimited text with a column that mixes numbers and text
TextRows ==
    << <<Cell("k", Str(<<"2">>)), Cell("t", Str(<<"A", "b">>))>>,
       <<Cell("k", Str(<<"1", "0">>)), Cell("t", Str(<<"b">>))>>,
       <<Cell("k", Str(<<"1", "a">>)), Cell("t", Str(<<>>))>> >>

\* the elements of the long JSON array: every second row is tagged "a", the
\* others "b"; the elements after the hundredth carry one more key
LongElements ==
    [i \in 1..MaxRows |->
        Element(<<Cell("id", Num(i)),
                  Cell("tag", Str(IF i % 2 = 1 THEN <<"b">> ELSE <<"a">>))>>
                \o (IF i > SampleSize THEN <<Cell("z", Num(1))>> ELSE <<>>))]

Files ==
    << \* 1: delimited text, upper-case extension
       [name |-> <<"D", ".", "C", "S", "V">>,
        papa |-> [error |-> FALSE, rows |-> TextRows],
        json |-> NoJson, parquet |-> NoParquet],
       \* 2: a JSON array of objects with null, nested and missing values
       [name |-> <<"b", ".", "j", "s", "o", "n">>,
        papa |-> JunkRows,
        json |-> [valid |-> TRUE, array |-> TRUE,
                  elems |-> << Element(<<Cell("k", Num(3)), Cell("t", Null)>>),
                               Element(<<Cell("k", Str(<<"3">>)),
                                         Cell("u", Obj(<< <<"x", 1>> >>))>>),
                               NumberElement,
                               Element(<<Cell("t", Bool(FALSE)), Cell("k", Arr(<<1, 2>>))>>) >>],
        parquet |-> NoParquet],
       \* 3: a JSON array with a null element
       [name |-> <<"n", ".", "j", "s", "o", "n">>,
        papa |-> JunkRows,
        json |-> [valid |-> TRUE, array |-> TRUE,
                  elems |-> << Element(<<Cell("k", Num(1))>>), NullElement >>],
        parquet |-> NoParquet],
       \* 4: text that is not JSON
       [name |-> <<"x", ".", "j", "s", "o", "n">>,
        papa |-> JunkRows, json |-> NoJson, parquet |-> NoParquet],
       \* 5: a JSON object
       [name |-> <<"o", ".", "J", "s", "o", "n">>,
        papa |-> JunkRows,
        json |-> [valid |-> TRUE, array |-> FALSE, elems |-> <<>>],
        parquet |-> NoParquet],
       \* 6: a Parquet file with a 64-bit integer column and a nested value
       [name |-> <<"c", ".", "p", "a", "r", "q", "u", "e", "t">>,
        papa |-> JunkRows, json |-> NoJson,
        parquet |-> [ok |-> TRUE,
                     rows |-> << <<Cell("k", BigInt(5)), Cell("t", Null)>>,
                                 <<Cell("k", BigInt(7)), Cell("t", Arr(<<1>>))>> >>]],
       \* 7: a Parquet file the reader cannot decode
       [name |-> <<"z", ".", "p", "a", "r", "q", "u", "e", "t">>,
        papa |-> JunkRows, json |-> NoJson, parquet |-> NoParquet],
       \* 8: delimited text with an unknown extension
       [name |-> <<"d", ".", "t", "a", "r", ".", "t", "s", "v">>,
        papa |-> [error |-> FALSE, rows |-> TextRows],
        json |-> NoJson, parquet |-> NoParquet],
       \* 9: a name without an extension, and no rows
       [name |-> <<"n", "o", "e", "x", "t", ".">>,
        papa |-> [error |-> FALSE, rows |-> <<>>],
        json |-> NoJson, parquet |-> NoParquet],
       \* 10: a file that cannot be read
       [name |-> <<"e", ".", "c", "s", "v">>,
        papa |-> NoPapa, json |-> NoJson, parquet |-> NoParquet],
       \* 11: a long JSON array
       [name |-> <<"l", ".", "j", "s", "o", "n">>,
        papa |-> JunkRows,
        json |-> [valid |-> TRUE, array |-> TRUE, elems |-> LongElements],
        parquet |-> NoParquet] >>

FileIds == 1..Len(Files)

(***************************************************************************)
(* parseJSON (page.js 404-451), after file.text() has resolved.            *)
(***************************************************************************)
\* allKeys.add(k) for the keys of one row, in their order
RECURSIVE AddKeys(_, _)
AddKeys(cols, keys) ==
    IF keys = <<>> THEN cols
    ELSE AddKeys(IF Head(keys) \in Range(cols) THEN cols ELSE Append(cols, Head(keys)),
                 Tail(keys))

\* the sampling loop (page.js 419-429) over elements i..n, 1 <= i <= n: the
\* keys of the object elements in the order of their first appearance (the
\* range is halved to keep the evaluation shallow)
RECURSIVE SampleKeys(_, _, _)
SampleKeys(elems, i, n) ==
    IF i = n
    THEN IF elems[i].t = "object" THEN AddKeys(<<>>, Keys(elems[i].cells)) ELSE <<>>
    ELSE LET mid == (i + n) \div 2
         IN  AddKeys(SampleKeys(elems, i, mid), SampleKeys(elems, mid + 1, n))

JsonColumns(elems) ==
    IF Len(elems) = 0 THEN <<>> ELSE SampleKeys(elems, 1, Min(Len(elems), SampleSize))

\* the value stored for one column of one element (page.js 435-439)
JsonCell(elem, col) ==
    LET val == Get(elem.cells, col)
        flat == IF IsNonNullObject(val) THEN Str(JsonStringifyValue(val)) ELSE val
    IN  IF flat = Undefined \/ flat = Null THEN EmptyStr ELSE flat

\* row[col] throws a TypeError when row is null (page.js 435)
JsonRowThrows(elem, cols) == elem.t = "null" /\ cols # <<>>

JsonRowCells(elem, cols) == [c \in 1..Len(cols) |-> Cell(cols[c], JsonCell(elem, cols[c]))]

\* the messages of parseJSON (page.js 411, 415)
InvalidJsonMessage == "Invalid JSON format. Please ensure file contains valid JSON."
\* the message of the catch block in the place of the one for a non-array
NotArrayAsInvalid == InvalidJsonMessage
NotArrayMessage == "JSON file must contain an array of objects (e.g. [{}, {}])."

\* what parseJSON does with the file: the error it sets (NULL for none),
\* whether it calls setColumns and setData, and with what
ParseJSONResult(f) ==
    LET json == Files[f].json
        cols == JsonColumns(json.elems)
        none == [error |-> NULL, setColumns |-> FALSE, columns |-> <<>>,
                 setData |-> FALSE, rows |-> <<>>]
    IN  IF ~json.valid
        THEN [none EXCEPT !.error = InvalidJsonMessage]
        ELSE IF ~json.array
        THEN [none EXCEPT !.error = NotArrayMessage]
        ELSE IF Len(json.elems) = 0 THEN none
        ELSE IF \E i \in 1..Len(json.elems) : JsonRowThrows(json.elems[i], cols)
        THEN [none EXCEPT !.error = "TypeError: Cannot read properties of null",
                          !.setColumns = TRUE, !.columns = cols]
        ELSE [none EXCEPT !.setColumns = TRUE, !.columns = cols, !.setData = TRUE,
                          !.rows = [i \in 1..Len(json.elems) |->
                                       JsonRowCells(json.elems[i], cols)]]

\* what parseJSON does with each of the files
ParseJSONResults == [f \in FileIds |-> ParseJSONResult(f)]

(***************************************************************************)
(* The onComplete callback of parseParquet (page.js 466-487).              *)
(***************************************************************************)
\* a cell that keeps a nested value as it was read
ParquetCellRaw(cells, col) == Get(cells, col)

ParquetCell(cells, col) ==
    LET val == Get(cells, col)
    IN  IF IsNonNullObject(val) THEN Str(JsonStringifyValue(val)) ELSE val

ParquetRows(rows) ==
    LET cols == Keys(rows[1])
    IN  [i \in 1..Len(rows) |->
            [c \in 1..Len(cols) |-> Cell(cols[c], ParquetCell(rows[i], cols[c]))]]

(***************************************************************************)
(* The library loading effect (page.js 96-114): PapaParse, then HyParquet. *)
(***************************************************************************)
InitFrame ==
    UNCHANGED <<data, columns, gridVars, fileName, fileType, loading, pendingFile,
                   importDelimiter, customExtension, forceCustomConfig, hoverVars,
                   arrowRef, parquetWasmRef, showExportMenu, parses, exportRun,
                   uploads, loadedBy, editCount>>

\* loadScript resolved (page.js 101-102)
InitPapaLoaded ==
    /\ initPc = "papa"
    /\ papaRef' = TRUE
    /\ initPc' = "hyparquet"
    /\ lastOp' = "init"
    /\ out' = [NoEffects EXCEPT !.requests = <<Url_hyparquet>>]
    /\ UNCHANGED <<hyparquetRef, error>>
    /\ InitFrame

\* loadModule resolved (page.js 105-106)
InitHyparquetLoaded ==
    /\ initPc = "hyparquet"
    /\ hyparquetRef' = TRUE
    /\ initPc' = "done"
    /\ lastOp' = "init"
    /\ out' = NoEffects
    /\ UNCHANGED <<papaRef, error>>
    /\ InitFrame

\* either load rejected (page.js 108-111)
InitFailed ==
    /\ initPc \in {"papa", "hyparquet"}
    /\ error' = "Failed to initialize data libraries. Please refresh."
    /\ initPc' = "done"
    /\ lastOp' = "init"
    /\ out' = NoEffects
    /\ UNCHANGED <<papaRef, hyparquetRef>>
    /\ InitFrame

(***************************************************************************)
(* File handling (page.js 333-494).                                        *)
(***************************************************************************)
Ext_csv == <<".", "c", "s", "v">>
Ext_parquet == <<".", "p", "a", "r", "q", "u", "e", "t">>
Ext_json == <<".", "j", "s", "o", "n">>
Ext_txt == <<".", "t", "x", "t">>

\* the branch by the name as typed, not lower-cased
RouteAsTyped(name, forced) ==
    IF forced \/ (~EndsWith(name, Ext_csv) /\ ~EndsWith(name, Ext_parquet)
                  /\ ~EndsWith(name, Ext_json))
    THEN "modal"
    ELSE IF EndsWith(name, Ext_csv) THEN "csv"
    ELSE IF EndsWith(name, Ext_parquet) THEN "parquet"
    ELSE "json"

\* the branch handleFileUpload takes (page.js 338-361)
Route(name, forced) ==
    LET lowerName == ToLowerCase(name)
    IN  IF forced \/ (~EndsWith(lowerName, Ext_csv) /\ ~EndsWith(lowerName, Ext_parquet)
                      /\ ~EndsWith(lowerName, Ext_json))
        THEN "modal"
        ELSE IF EndsWith(lowerName, Ext_csv) THEN "csv"
        ELSE IF EndsWith(lowerName, Ext_parquet) THEN "parquet"
        ELSE "json"

\* the delimiter parseCSV hands to Papa.parse (page.js 384)
ActualDelimiter(delimiter) == IF delimiter = <<"\\", "t">> THEN <<"\t">> ELSE delimiter

\* parseCSV (page.js 380-389): the parses in flight after the call
ParseCSVStarts(file, delimiter) ==
    IF ~papaRef THEN parses
    ELSE parses \cup {[id |-> file.id, f |-> file.f, kind |-> "csv",
                       delimiter |-> ActualDelimiter(delimiter)]}

\* handleFileUpload (page.js 333-362) up to its first await.  The drop zone
\* and the file input exist while data is empty (page.js 835-876); the
\* import-settings modal covers them.
HandleFileUpload(f) ==
    /\ IsHome
    /\ pendingFile = NoFile
    /\ uploads < MaxUploads
    /\ f \in FileIds
    /\ LET file == [id |-> uploads + 1, f |-> f]
           route == Route(Files[f].name, forceCustomConfig)
       IN  /\ uploads' = uploads + 1
           /\ fileName' = Files[f].name
           /\ lastOp' = "handleFileUpload"
           /\ CASE route = "modal" ->
                     /\ loading' = FALSE
                     /\ error' = NULL
                     /\ pendingFile' = file
                     /\ forceCustomConfig' = FALSE
                     /\ out' = [NoEffects EXCEPT !.file = file.id]
                     /\ UNCHANGED <<fileType, parses>>
                [] route = "csv" ->
                     /\ loading' = TRUE
                     /\ error' = NULL
                     /\ fileType' = "csv"
                     /\ parses' = ParseCSVStarts(file, <<>>)
                     /\ out' = [NoEffects EXCEPT !.parser = "parseCSV", !.file = file.id,
                                                 !.delimiter = <<>>]
                     /\ UNCHANGED <<pendingFile, forceCustomConfig>>
                [] route = "parquet" ->
                     \* parseParquet (page.js 453-461)
                     /\ loading' = hyparquetRef
                     /\ error' = IF hyparquetRef THEN NULL
                                 ELSE "Parquet library not loaded. Please refresh."
                     /\ fileType' = "parquet"
                     /\ parses' = IF hyparquetRef
                                  THEN parses \cup {[id |-> file.id, f |-> f,
                                                     kind |-> "parquet",
                                                     delimiter |-> NullText]}
                                  ELSE parses
                     /\ out' = [NoEffects EXCEPT !.parser = "parseParquet",
                                                 !.file = file.id]
                     /\ UNCHANGED <<pendingFile, forceCustomConfig>>
                [] route = "json" ->
                     \* parseJSON (page.js 404-406)
                     /\ loading' = TRUE
                     /\ error' = NULL
                     /\ fileType' = "json"
                     /\ parses' = parses \cup {[id |-> file.id, f |-> f, kind |-> "json",
                                                delimiter |-> NullText]}
                     /\ out' = [NoEffects EXCEPT !.parser = "parseJSON", !.file = file.id]
                     /\ UNCHANGED <<pendingFile, forceCustomConfig>>
    /\ UNCHANGED <<data, columns, gridVars, importDelimiter, customExtension, hoverVars,
                   libVars, showExportMenu, exportRun, editCount, loadedBy>>

\* "Custom Import Options?" button (page.js 886-892); the file dialog it
\* opens ends in handleFileUpload or is dismissed
CustomImportClick ==
    /\ IsHome
    /\ ~loading
    /\ pendingFile = NoFile
    /\ forceCustomConfig' = TRUE
    /\ lastOp' = "customImportClick"
    /\ out' = NoEffects
    /\ UNCHANGED <<data, columns, gridVars, fileName, fileType, loading, error,
                   pendingFile, importDelimiter, customExtension, hoverVars, libVars,
                   showExportMenu, parses, exportRun, uploads, loadedBy, editCount>>

\* delimiter input and select onChange (page.js 794, 799)
SetImportDelimiter(d) ==
    /\ pendingFile # NoFile
    /\ importDelimiter' = d
    /\ lastOp' = "setImportDelimiter"
    /\ out' = NoEffects
    /\ UNCHANGED <<data, columns, gridVars, fileName, fileType, loading, error,
                   pendingFile, customExtension, forceCustomConfig, hoverVars, libVars,
                   showExportMenu, parses, exportRun, uploads, loadedBy, editCount>>

\* Cancel button of the modal (page.js 816)
CancelImport ==
    /\ pendingFile # NoFile
    /\ pendingFile' = NoFile
    /\ importDelimiter' = <<>>
    /\ forceCustomConfig' = FALSE
    /\ lastOp' = "cancelImport"
    /\ out' = NoEffects
    /\ UNCHANGED <<data, columns, gridVars, fileName, fileType, loading, error,
                   customExtension, hoverVars, libVars, showExportMenu, parses,
                   exportRun, uploads, loadedBy, editCount>>

\* the extension processPendingFile keeps for the export (page.js 373-374)
CustomExtensionOf(name) == IF ExtMatch(name) = <<>> THEN Ext_txt ELSE ExtMatch(name)

\* processPendingFile (page.js 365-378), the Import Data button of the modal
\* (page.js 823), which is rendered only while pendingFile is set
ProcessPendingFile ==
    /\ pendingFile # NoFile
    /\ loading' = TRUE
    /\ pendingFile' = NoFile
    /\ customExtension' = CustomExtensionOf(Files[pendingFile.f].name)
    /\ fileType' = "custom"
    /\ parses' = ParseCSVStarts(pendingFile, importDelimiter)
    /\ lastOp' = "processPendingFile"
    /\ out' = [NoEffects EXCEPT !.parser = "parseCSV", !.file = pendingFile.id,
                                !.delimiter = importDelimiter]
    /\ UNCHANGED <<data, columns, gridVars, fileName, error, importDelimiter,
                   forceCustomConfig, hoverVars, libVars, showExportMenu, exportRun,
                   uploads, loadedBy, editCount>>

\* what the end of a parse leaves alone
ParseFrame ==
    /\ out' = NoEffects
    /\ UNCHANGED <<gridVars, fileName, fileType, pendingFile, importDelimiter,
                   customExtension, forceCustomConfig, hoverVars, libVars,
                   showExportMenu, exportRun, uploads, editCount>>

\* the complete callback of Papa.parse (page.js 390-396)
CsvComplete(p) ==
    /\ p \in parses /\ p.kind = "csv"
    /\ ~Files[p.f].papa.error
    /\ parses' = parses \ {p}
    /\ LET rows == Files[p.f].papa.rows
       IN  IF Len(rows) > 0
           THEN columns' = Keys(rows[1]) /\ data' = WithRefs(rows) /\ loadedBy' = p
           ELSE UNCHANGED <<columns, data, loadedBy>>
    /\ loading' = FALSE
    /\ lastOp' = "csvComplete"
    /\ UNCHANGED error
    /\ ParseFrame

\* the error callback of Papa.parse (page.js 397-400)
CsvError(p) ==
    /\ p \in parses /\ p.kind = "csv"
    /\ Files[p.f].papa.error
    /\ parses' = parses \ {p}
    /\ error' = "Error parsing file: NotReadableError"
    /\ loading' = FALSE
    /\ lastOp' = "csvError"
    /\ UNCHANGED <<columns, data, loadedBy>>
    /\ ParseFrame

\* parseJSON after file.text() (page.js 406-450)
JsonDone(p) ==
    /\ p \in parses /\ p.kind = "json"
    /\ parses' = parses \ {p}
    /\ LET r == ParseJSONResults[p.f]
       IN  /\ columns' = IF r.setColumns THEN r.columns ELSE columns
           /\ data' = IF r.setData THEN WithRefs(r.rows) ELSE data
           /\ loadedBy' = IF r.setData THEN p ELSE loadedBy
           /\ error' = IF r.error # NULL THEN r.error ELSE error
    /\ loading' = FALSE
    /\ lastOp' = "jsonDone"
    /\ ParseFrame

\* parseParquet after parquetRead called onComplete (page.js 466-487)
ParquetComplete(p) ==
    /\ p \in parses /\ p.kind = "parquet"
    /\ Files[p.f].parquet.ok
    /\ parses' = parses \ {p}
    /\ LET rows == Files[p.f].parquet.rows
       IN  IF Len(rows) > 0
           THEN /\ columns' = Keys(rows[1])
                /\ data' = WithRefs(ParquetRows(rows))
                /\ loadedBy' = p
           ELSE UNCHANGED <<columns, data, loadedBy>>
    /\ loading' = FALSE
    /\ lastOp' = "parquetComplete"
    /\ UNCHANGED error
    /\ ParseFrame

\* parseParquet after parquetRead threw (page.js 489-493)
ParquetFailed(p) ==
    /\ p \in parses /\ p.kind = "parquet"
    /\ ~Files[p.f].parquet.ok
    /\ parses' = parses \ {p}
    /\ error' = "Failed to parse Parquet file. It might use an unsupported compression codec (e.g. LZO)."
    /\ loading' = FALSE
    /\ lastOp' = "parquetFailed"
    /\ UNCHANGED <<columns, data, loadedBy>>
    /\ ParseFrame

(***************************************************************************)
(* Exporting (page.js 498-593).  The Export button and its menu are in the *)
(* header and rendered while data is not empty (page.js 692-760).          *)
(***************************************************************************)
Suffix_json == <<"_", "e", "x", "p", "o", "r", "t", "e", "d">> \o Ext_json
Suffix_csv == <<"_", "e", "x", "p", "o", "r", "t", "e", "d">> \o Ext_csv
Suffix_parquet == <<"_", "e", "x", "p", "o", "r", "t", "e", "d">> \o Ext_parquet

\* fileName.replace(/\.[^/.]+$/, "") + suffix (page.js 512, 519, 576, 589)
ExportName(name, suffix) == StripExt(name) \o suffix

\* JSON.stringify(data) throws a TypeError on a BigInt value
StringifyThrows(rows) ==
    \E i \in 1..Len(rows) : \E c \in 1..Len(rows[i].cells) :
        rows[i].cells[c][2].t = "bigint"

ExportFrame ==
    UNCHANGED <<data, columns, gridVars, fileName, fileType, error, pendingFile,
                importDelimiter, customExtension, forceCustomConfig, hoverVars,
                papaRef, hyparquetRef, initPc, parses, uploads, loadedBy, editCount>>

\* Export button (page.js 707-710), disabled while loading
ToggleExportMenu ==
    /\ ~IsHome
    /\ ~loading
    /\ showExportMenu' = ~showExportMenu
    /\ lastOp' = "toggleExportMenu"
    /\ out' = NoEffects
    /\ UNCHANGED <<loading, arrowRef, parquetWasmRef, exportRun>>
    /\ ExportFrame

\* the backdrop of the open menu (page.js 720)
CloseExportMenu ==
    /\ ~IsHome
    /\ showExportMenu
    /\ showExportMenu' = FALSE
    /\ lastOp' = "closeExportMenu"
    /\ out' = NoEffects
    /\ UNCHANGED <<loading, arrowRef, parquetWasmRef, exportRun>>
    /\ ExportFrame

\* exportCSV (page.js 516-521), the "CSV (.csv)" item of the menu
ExportCSV ==
    /\ ~IsHome
    /\ showExportMenu
    /\ IF ~papaRef
       THEN /\ out' = NoEffects
            /\ UNCHANGED showExportMenu
       ELSE /\ out' = [NoEffects EXCEPT !.downloads = <<ExportName(fileName, Suffix_csv)>>]
            /\ showExportMenu' = FALSE
    /\ lastOp' = "exportCSV"
    /\ UNCHANGED <<loading, arrowRef, parquetWasmRef, exportRun>>
    /\ ExportFrame

\* exportJSON (page.js 510-514), the "JSON (.json)" item of the menu
ExportJSON ==
    /\ ~IsHome
    /\ showExportMenu
    /\ IF StringifyThrows(data)
       THEN /\ out' = NoEffects
            /\ UNCHANGED showExportMenu
       ELSE /\ out' = [NoEffects EXCEPT !.downloads = <<ExportName(fileName, Suffix_json)>>]
            /\ showExportMenu' = FALSE
    /\ lastOp' = "exportJSON"
    /\ UNCHANGED <<loading, arrowRef, parquetWasmRef, exportRun>>
    /\ ExportFrame

\* the delimiter exportCustom hands to Papa.unparse (page.js 525-527)
FinalDelimiter(delimiter) ==
    IF ActualDelimiter(delimiter) = <<>> THEN <<",">> ELSE ActualDelimiter(delimiter)

\* "_exported" + (customExtension || ".txt") (page.js 530)
Suffix_custom(extension) ==
    <<"_", "e", "x", "p", "o", "r", "t", "e", "d">>
        \o (IF extension = NullText THEN Ext_txt ELSE extension)

\* exportCustom (page.js 523-533), the "Original" item of the menu, which
\* is rendered while fileType is 'custom' (page.js 747)
ExportCustom ==
    /\ ~IsHome
    /\ showExportMenu
    /\ fileType = "custom"
    /\ IF ~papaRef
       THEN /\ out' = NoEffects
            /\ UNCHANGED showExportMenu
       ELSE /\ out' = [NoEffects EXCEPT
                          !.downloads = <<ExportName(fileName, Suffix_custom(customExtension))>>,
                          !.delimiter = FinalDelimiter(importDelimiter)]
            /\ showExportMenu' = FALSE
    /\ lastOp' = "exportCustom"
    /\ UNCHANGED <<loading, arrowRef, parquetWasmRef, exportRun>>
    /\ ExportFrame

(***************************************************************************)
(* exportParquet (page.js 535-593).  The function runs to its first await, *)
(* and from the end of an await to the next one or to its end, in one      *)
(* step.  It awaits the Arrow module when arrowRef is empty and the WASM   *)
(* writer when parquetWasmRef is empty.  exportRun holds where the run     *)
(* waits and the data and fileName its closure captured.                   *)
(***************************************************************************)
Idle == [pc |-> "idle", data |-> <<>>, fileName |-> <<>>]

\* a writer URL without its version
WriterUrlUnpinned(stage) ==
    CASE stage = "arrow" -> "https://cdn.jsdelivr.net/npm/apache-arrow/+esm"
      [] stage = "wasm" -> Url_parquetWasm
      [] stage = "init" -> Url_parquetWasmBinary

\* what exportParquet requests when it waits for the Arrow module, for the
\* module of the WASM writer and for its initialiser (page.js 542, 546, 547)
WriterUrl(stage) ==
    CASE stage = "arrow" -> Url_arrow
      [] stage = "wasm" -> Url_parquetWasm
      [] stage = "init" -> Url_parquetWasmBinary

\* the rest of the function once both libraries are there (page.js 551-592):
\* converted says whether the conversion and the write succeed, accept is the
\* answer to window.confirm when they do not, loadingNow the value loading
\* has when the function ends without setting it (JSON.stringify threw in
\* the catch block, page.js 588)
ExportTail(run, converted, accept, loadingNow) ==
    /\ exportRun' = Idle
    /\ IF converted
       THEN /\ out' = [NoEffects EXCEPT
                          !.downloads = <<ExportName(run.fileName, Suffix_parquet)>>]
            /\ loading' = FALSE
       ELSE IF ~accept
       THEN /\ out' = [NoEffects EXCEPT !.confirm = "refused"]
            /\ loading' = FALSE
       ELSE IF StringifyThrows(run.data)
       THEN /\ out' = [NoEffects EXCEPT !.confirm = "accepted"]
            /\ loading' = loadingNow
       ELSE /\ out' = [NoEffects EXCEPT
                          !.downloads = <<ExportName(run.fileName, Suffix_json)>>,
                          !.confirm = "accepted"]
            /\ loading' = FALSE

\* the catch block when a library load rejected (page.js 580-592)
ExportCatch(run, accept) == ExportTail(run, FALSE, accept, loading)

\* exportParquet, the "Parquet (.parquet)" item of the menu
ExportParquet(converted, accept) ==
    /\ ~IsHome
    /\ showExportMenu
    /\ exportRun.pc = "idle"
    /\ showExportMenu' = FALSE
    /\ lastOp' = "exportParquet"
    /\ LET run == [pc |-> "idle", data |-> data, fileName |-> fileName]
       IN  IF ~arrowRef
           THEN /\ exportRun' = [run EXCEPT !.pc = "arrow"]
                /\ loading' = TRUE
                /\ out' = [NoEffects EXCEPT !.requests = <<WriterUrl("arrow")>>]
           ELSE IF ~parquetWasmRef
           THEN /\ exportRun' = [run EXCEPT !.pc = "wasm"]
                /\ loading' = TRUE
                /\ out' = [NoEffects EXCEPT !.requests = <<WriterUrl("wasm")>>]
           ELSE ExportTail(run, converted, accept, TRUE)
    /\ UNCHANGED <<arrowRef, parquetWasmRef>>
    /\ ExportFrame

\* the Arrow module loaded (page.js 542)
ExportArrowLoaded(converted, accept) ==
    /\ exportRun.pc = "arrow"
    /\ arrowRef' = TRUE
    /\ lastOp' = "exportParquet:arrow"
    /\ IF ~parquetWasmRef
       THEN /\ exportRun' = [exportRun EXCEPT !.pc = "wasm"]
            /\ out' = [NoEffects EXCEPT !.requests = <<WriterUrl("wasm")>>]
            /\ UNCHANGED loading
       ELSE ExportTail(exportRun, converted, accept, loading)
    /\ UNCHANGED <<parquetWasmRef, showExportMenu>>
    /\ ExportFrame

\* the module of the WASM writer loaded (page.js 546): its initialiser is
\* called with the URL of the binary (page.js 547)
ExportWasmLoaded ==
    /\ exportRun.pc = "wasm"
    /\ exportRun' = [exportRun EXCEPT !.pc = "init"]
    /\ lastOp' = "exportParquet:wasm"
    /\ out' = [NoEffects EXCEPT !.requests = <<WriterUrl("init")>>]
    /\ UNCHANGED <<loading, arrowRef, parquetWasmRef, showExportMenu>>
    /\ ExportFrame

\* the WASM writer initialised (page.js 547-548)
ExportWasmReady(converted, accept) ==
    /\ exportRun.pc = "init"
    /\ parquetWasmRef' = TRUE
    /\ lastOp' = "exportParquet:ready"
    /\ ExportTail(exportRun, converted, accept, loading)
    /\ UNCHANGED <<arrowRef, showExportMenu>>
    /\ ExportFrame

\* a load of a writer library rejected (page.js 542, 546-547, 580)
ExportLoadFailed(accept) ==
    /\ exportRun.pc \in {"arrow", "wasm", "init"}
    /\ lastOp' = "exportParquet:failed"
    /\ ExportCatch(exportRun, accept)
    /\ UNCHANGED <<arrowRef, parquetWasmRef, showExportMenu>>
    /\ ExportFrame

\* a clearTimeout that cancels nothing
ClearTimeoutNone(pending, id) == pending

\* clearTimeout (page.js 246, 247): the pending timers without the one of
\* the given id
ClearTimeout(pending, id) == {t \in pending : t.id # id}

(***************************************************************************)
(* resetApp (page.js 232-248), the onClick of the header logo while data   *)
(* is not empty (page.js 680).                                             *)
(***************************************************************************)
ResetApp ==
    /\ ~IsHome
    /\ data' = <<>>
    /\ columns' = <<>>
    /\ fileName' = <<"U", "n", "t", "i", "t", "l", "e", "d">>
    /\ fileType' = NULL
    /\ searchTerm' = <<>>
    /\ currentPage' = 1
    /\ sortConfig' = [key |-> NULL, direction |-> "asc"]
    /\ error' = NULL
    /\ pendingFile' = NoFile
    /\ importDelimiter' = <<>>
    /\ customExtension' = NullText
    /\ forceCustomConfig' = FALSE
    /\ hoveredColumn' = NULL
    /\ timers' = ClearTimeout(ClearTimeout(timers, hoverTimeoutRef), leaveTimeoutRef)
    /\ pointer' = NULL
    /\ loadedBy' = NoParse
    /\ lastOp' = "resetApp"
    /\ out' = NoEffects
    /\ UNCHANGED <<loading, showEmptyStats, rowsPerPage, copiedColumn, hoverTimeoutRef,
                   leaveTimeoutRef, libVars, showExportMenu, parses, exportRun, uploads,
                   editCount>>

(***************************************************************************)
(* The application: the state after the first render, and the handlers of  *)
(* loading, importing and exporting.                                       *)
(***************************************************************************)
Untitled == <<"U", "n", "t", "i", "t", "l", "e", "d">>

Init ==
    /\ data = <<>>
    /\ columns = <<>>
    /\ fileName = Untitled
    /\ fileType = NULL
    /\ loading = FALSE
    /\ error = NULL
    /\ searchTerm = <<>>
    /\ showExportMenu = FALSE
    /\ pendingFile = NoFile
    /\ importDelimiter = <<>>
    /\ customExtension = NullText
    /\ forceCustomConfig = FALSE
    /\ showEmptyStats = TRUE
    /\ currentPage = 1
    /\ rowsPerPage = 50
    /\ sortConfig = [key |-> NULL, direction |-> "asc"]
    /\ hoveredColumn = NULL
    /\ copiedColumn = NULL
    /\ hoverTimeoutRef = 0
    /\ leaveTimeoutRef = 0
    /\ papaRef = FALSE
    /\ hyparquetRef = FALSE
    /\ arrowRef = FALSE
    /\ parquetWasmRef = FALSE
    /\ timers = {}
    /\ pointer = NULL
    /\ initPc = "papa"
    /\ parses = {}
    /\ exportRun = Idle
    /\ uploads = 0
    /\ loadedBy = NoParse
    /\ lastOp = "mount"
    /\ out = [NoEffects EXCEPT !.requests = <<Url_papa>>]
    /\ editCount = 0

\* the files of the application specification
AppFiles == {1, 2, 3, 4, 5, 6, 7, 8, 9, 10}

\* what the user types into the delimiter input
Delimiters == {<<>>, <<";">>, <<"\\", "t">>}

Next ==
    \/ InitPapaLoaded
    \/ InitHyparquetLoaded
    \/ InitFailed
    \/ \E f \in AppFiles : HandleFileUpload(f)
    \/ CustomImportClick
    \/ \E d \in Delimiters : SetImportDelimiter(d)
    \/ CancelImport
    \/ ProcessPendingFile
    \/ \E p \in parses : CsvComplete(p)
    \/ \E p \in parses : CsvError(p)
    \/ \E p \in parses : JsonDone(p)
    \/ \E p \in parses : ParquetComplete(p)
    \/ \E p \in parses : ParquetFailed(p)
    \/ ToggleExportMenu
    \/ CloseExportMenu
    \/ ExportCSV
    \/ ExportJSON
    \/ ExportCustom
    \/ \E converted, accept \in BOOLEAN : ExportParquet(converted, accept)
    \/ \E converted, accept \in BOOLEAN : ExportArrowLoaded(converted, accept)
    \/ ExportWasmLoaded
    \/ \E converted, accept \in BOOLEAN : ExportWasmReady(converted, accept)
    \/ \E accept \in BOOLEAN : ExportLoadFailed(accept)
    \/ ResetApp

Spec == Init /\ [][Next]_vars

(***************************************************************************)
(* Loading on its own: the library loading effect, the drop zone, the      *)
(* import-settings modal and the parses.  What the browser has started it  *)
(* finishes: a script or module load settles, a parse in flight calls one  *)
(* of its callbacks.  Nothing makes the user act.                          *)
(***************************************************************************)
\* the library loading effect moves on
InitSettles == InitPapaLoaded \/ InitHyparquetLoaded \/ InitFailed

\* a parse in flight ends
ParseEnds ==
    \E p \in parses :
        CsvComplete(p) \/ CsvError(p) \/ JsonDone(p) \/ ParquetComplete(p) \/ ParquetFailed(p)

LoadNext ==
    \/ InitPapaLoaded
    \/ InitHyparquetLoaded
    \/ InitFailed
    \/ \E f \in AppFiles : HandleFileUpload(f)
    \/ CustomImportClick
    \/ \E d \in Delimiters : SetImportDelimiter(d)
    \/ CancelImport
    \/ ProcessPendingFile
    \/ \E p \in parses : CsvComplete(p)
    \/ \E p \in parses : CsvError(p)
    \/ \E p \in parses : JsonDone(p)
    \/ \E p \in parses : ParquetComplete(p)
    \/ \E p \in parses : ParquetFailed(p)

LoadSpec == Init /\ [][LoadNext]_vars /\ WF_vars(InitSettles) /\ WF_vars(ParseEnds)

(***************************************************************************)
(* The grid on loaded data: the state after the import of one file with    *)
(* the reader libraries loaded, and the handlers of the grid.              *)
(***************************************************************************)
\* the rows a completed import of file f puts into data
ImportedRows(f) ==
    CASE Route(Files[f].name, FALSE) = "csv" -> Files[f].papa.rows
      [] Route(Files[f].name, FALSE) = "json" -> ParseJSONResult(f).rows
      [] Route(Files[f].name, FALSE) = "parquet" -> ParquetRows(Files[f].parquet.rows)

\* the state after a file was dropped on the fresh page and its import, a
\* parse of the given kind, ended with the given rows and columns; the
\* import of kind 'custom' went through the modal with the delimiter left
\* on auto-detect
LoadedWith(f, name, kind, rows, cols) ==
    /\ data = WithRefs(rows)
    /\ columns = cols
    /\ fileName = name
    /\ fileType = kind
    /\ loading = FALSE
    /\ error = NULL
    /\ searchTerm = <<>>
    /\ showExportMenu = FALSE
    /\ pendingFile = NoFile
    /\ importDelimiter = <<>>
    /\ customExtension = (IF kind = "custom" THEN CustomExtensionOf(name) ELSE NullText)
    /\ forceCustomConfig = FALSE
    /\ showEmptyStats = TRUE
    /\ currentPage = 1
    /\ rowsPerPage = 50
    /\ sortConfig = [key |-> NULL, direction |-> "asc"]
    /\ hoveredColumn = NULL
    /\ copiedColumn = NULL
    /\ hoverTimeoutRef = 0
    /\ leaveTimeoutRef = 0
    /\ papaRef = TRUE
    /\ hyparquetRef = TRUE
    /\ arrowRef = FALSE
    /\ parquetWasmRef = FALSE
    /\ timers = {}
    /\ pointer = NULL
    /\ initPc = "done"
    /\ parses = {}
    /\ exportRun = Idle
    /\ uploads = 1
    /\ loadedBy = [id |-> 1, f |-> f,
                   kind |-> IF kind = "custom" THEN "csv" ELSE kind,
                   delimiter |-> IF kind \in {"csv", "custom"} THEN <<>> ELSE NullText]
    /\ lastOp = "grid"
    /\ out = NoEffects
    /\ editCount = 0

\* the state after file f was dropped on the fresh page and its import ended
Loaded(f) ==
    LoadedWith(f, Files[f].name, Route(Files[f].name, FALSE), ImportedRows(f),
               IF Route(Files[f].name, FALSE) = "json"
               THEN ParseJSONResult(f).columns
               ELSE Keys(ImportedRows(f)[1]))

\* the files of the grid specification: the short ones
GridFiles == {1, 2, 6}

GridInit == \E f \in GridFiles : Loaded(f)

\* what the user types into the search input and into a cell
SearchTerms == {<<>>, <<"B">>, <<"1">>}
EditValues == {<<>>, <<"b">>, <<"7">>}

\* the displayed rows the user types into: the first two and the last
EditPositions == {1, 2, Len(CurrentRows)}

\* the rows of a short file fill one page, whose navigation buttons are
\* disabled (page.js 1140, 1149, 1185, 1194)
GridNext ==
    \/ \E term \in SearchTerms : SetSearchTerm(term)
    \/ \E key \in Range(columns) : HandleSort(key)
    \/ \E n \in RowsPerPageOptions : SetRowsPerPage(n)
    \/ \E num \in 0..(TotalPages + 1) : PageInput(num)
    \/ \E k \in EditPositions, col \in Range(columns), value \in EditValues :
           CellEdit(k, col, value)

GridSpec == GridInit /\ [][GridNext]_vars

(***************************************************************************)
(* The grid on the long file, whose rows fill more than one page: the      *)
(* handlers of the grid, the user blanking the tag of the first displayed  *)
(* row.                                                                    *)
(***************************************************************************)
PagingFiles == {11}

PagingInit == \E f \in PagingFiles : Loaded(f)

PagingNext ==
    \/ \E term \in SearchTerms : SetSearchTerm(term)
    \/ \E key \in Range(columns) : HandleSort(key)
    \/ \E n \in RowsPerPageOptions : SetRowsPerPage(n)
    \/ FirstPage
    \/ PrevPage
    \/ NextPage
    \/ LastPage
    \/ \E num \in 0..(TotalPages + 1) : PageInput(num)
    \/ CellEdit(1, "tag", <<>>)

PagingSpec == PagingInit /\ [][PagingNext]_vars

(***************************************************************************)
(* The whole page on one file: d.tar.tsv, imported through the modal, is   *)
(* viewed, edited, exported, reset and imported again.  Its rows fill one  *)
(* page, whose navigation buttons are disabled.  The mouse moves over the  *)
(* header of column k, which is also the one that is clicked; the Parquet  *)
(* conversion succeeds and every dialog is accepted.                       *)
(***************************************************************************)
ViewFiles == {8}
ViewTerms == {<<>>, <<"1">>}

ViewInit ==
    \E f \in ViewFiles :
        LoadedWith(f, Files[f].name, "custom", Files[f].papa.rows,
                   Keys(Files[f].papa.rows[1]))

ViewNext ==
    \/ \E f \in ViewFiles : HandleFileUpload(f)
    \/ ProcessPendingFile
    \/ \E p \in parses : CsvComplete(p)
    \/ \E term \in ViewTerms : SetSearchTerm(term)
    \/ HandleSort("k")
    \/ SetRowsPerPage(100)
    \/ PageInput(1)
    \/ CellEdit(1, "k", <<>>)
    \/ ToggleEmptyStats
    \/ HandleMouseEnterColumn("k")
    \/ HandleMouseLeaveColumn
    \/ \E t \in timers : HoverTimerFires(t)
    \/ \E t \in timers : LeaveTimerFires(t)
    \/ ToggleExportMenu
    \/ CloseExportMenu
    \/ ExportCSV
    \/ ExportJSON
    \/ ExportCustom
    \/ ExportParquet(TRUE, TRUE)
    \/ ExportArrowLoaded(TRUE, TRUE)
    \/ ExportWasmLoaded
    \/ ExportWasmReady(TRUE, TRUE)
    \/ ExportLoadFailed(TRUE)
    \/ ResetApp

ViewSpec == ViewInit /\ [][ViewNext]_vars

(***************************************************************************)
(* The statistics tooltip on loaded data: the state after the import of a  *)
(* JSON array of up to MaxStatRows objects with the one key k, and the     *)
(* handlers of the tooltip.                                                *)
(***************************************************************************)
MaxStatRows == 4

\* the values of k: empty ones, numbers, text that converts to a number,
\* dates before, at and after the epoch, text that is neither
StatCells ==
    {Null, EmptyStr, Num(1), Str(<<"2">>), Str(<<"1", "0">>), Str(<<"b">>),
     Str(<<"1", "9", "6", "9", "-", "1", "2", "-", "3", "1">>),
     Str(<<"1", "9", "7", "0", "-", "0", "1", "-", "0", "3">>),
     Str(<<"1", "9", "7", "0", "-", "0", "1">>)}

StatColumns == UNION {[1..n -> StatCells] : n \in 1..MaxStatRows}

StatsFileName == <<"s", ".", "j", "s", "o", "n">>

StatsInit ==
    \E cells \in StatColumns :
        LoadedWith(0, StatsFileName, "json",
                   [i \in 1..Len(cells) |-> <<Cell("k", cells[i])>>], <<"k">>)

StatsNext ==
    \/ \E col \in Range(columns) : HandleMouseEnterColumn(col)
    \/ HandleMouseLeaveColumn
    \/ \E t \in timers : HoverTimerFires(t)
    \/ \E t \in timers : LeaveTimerFires(t)

StatsSpec == StatsInit /\ [][StatsNext]_vars

(***************************************************************************)
(* The mouse over the headers of a grid of two columns, one of numbers and *)
(* one of text: d.tar.tsv imported through the modal.  Mouseenter and      *)
(* mouseleave alternate; the timers fire in any order.                     *)
(***************************************************************************)
HoverNext ==
    \/ \E col \in Range(columns) : HandleMouseEnterColumn(col)
    \/ HandleMouseLeaveColumn
    \/ \E t \in timers : HoverTimerFires(t)
    \/ \E t \in timers : LeaveTimerFires(t)
    \/ \E written \in BOOLEAN : HandleCopyStats(written)
    \/ \E t \in timers : CopyTimerFires(t)
    \/ ResetApp

HoverSpec == ViewInit /\ [][HoverNext]_vars

(***************************************************************************)
(* The grid of the earlier implementation (src/unnamed/part_000): the rows *)
(* that pass the search, unsorted, in pages of 50, and a cell input that   *)
(* calls updateCell with the position of its row on the page.  The rows of *)
(* a short file fill one page, whose two buttons are disabled.             *)
(***************************************************************************)
\* currentRows (part_000 314-318) of filteredData (part_000 308-312)
CurrentRows_000 == PageRows(FilteredData, currentPage, rowsPerPage)

\* search input onChange (part_000 473-476)
SetSearchTerm_000(term) ==
    /\ ~IsHome
    /\ searchTerm' = term
    /\ currentPage' = 1
    /\ lastOp' = "grid"
    /\ out' = NoEffects
    /\ UNCHANGED <<data, columns, showEmptyStats, rowsPerPage, sortConfig, fileVars,
                   hoverVars, libVars, showExportMenu, parses, exportRun, uploads, loadedBy,
                   editCount>>

\* the index in data, counted from 1, that updateCell writes to (part_000
\* 279)
RealIndex_000(rowIndex) == (currentPage - 1) * rowsPerPage + rowIndex + 1

\* cell input onChange (part_000 537) and updateCell (part_000 278-283):
\* typing value into column col of the row at position rowIndex, counted
\* from 0, of the page.  An index past the end of data would add a row.
UpdateCell_000(rowIndex, col, value) ==
    /\ ~IsHome
    /\ editCount < MaxEdits
    /\ rowIndex \in 0..(Len(CurrentRows_000) - 1)
    /\ col \in Range(columns)
    /\ LET realIndex == RealIndex_000(rowIndex)
       IN  data' = IF realIndex <= Len(data)
                   THEN [data EXCEPT ![realIndex].cells = Put(@, col, Str(value))]
                   ELSE Append(data, [ref |-> realIndex, cells |-> <<Cell(col, Str(value))>>])
    /\ editCount' = editCount + 1
    /\ lastOp' = "grid"
    /\ out' = NoEffects
    /\ UNCHANGED <<columns, gridVars, fileVars, hoverVars, libVars, showExportMenu,
                   parses, exportRun, uploads, loadedBy>>

\* the name of a delimited text file that handleFileUpload takes
\* (part_000 99)
CsvName_000 == <<"t", ".", "c", "s", "v">>

\* what the user types into the search input
SearchTerms_000 == {<<>>, <<"B">>, <<"1">>, <<"7">>}

\* the state after the import of a delimited text file (part_000 120-123)
\* or of the Parquet file (part_000 146-165)
Init_000 ==
    \/ LoadedWith(1, CsvName_000, "csv", TextRows, Keys(TextRows[1]))
    \/ Loaded(6)

Next_000 ==
    \/ \E term \in SearchTerms_000 : SetSearchTerm_000(term)
    \/ \E rowIndex \in 0..2, col \in Range(columns), value \in EditValues :
           UpdateCell_000(rowIndex, col, value)

Spec_000 == Init_000 /\ [][Next_000]_vars

(***************************************************************************)
(* The statistics of one column k of up to eight values: up to four values *)
(* in any order, alone or followed by four different numbers.              *)
(***************************************************************************)
MaxModeRows == 4

\* the values of k: numbers, text that converts to a number, and two dates
ModeCells ==
    {Num(1), Str(<<"2">>), Num(3), Str(<<"1", "0">>),
     Str(<<"1", "9", "6", "9", "-", "1", "2", "-", "3", "1">>),
     Str(<<"1", "9", "7", "0", "-", "0", "1", "-", "0", "3">>)}

ModeTail == <<Str(<<"1", "0">>), Num(3), Num(2), Str(<<"1">>)>>

ModeColumns ==
    {head \o tail : head \in UNION {[1..n -> ModeCells] : n \in 1..MaxModeRows},
                    tail \in {<<>>, ModeTail}}

ModeInit ==
    \E cells \in ModeColumns :
        LoadedWith(0, StatsFileName, "json",
                   [i \in 1..Len(cells) |-> <<Cell("k", cells[i])>>], <<"k">>)

ModeSpec == ModeInit /\ [][StatsNext]_vars

(***************************************************************************)
(* C1.  Paging.                                                            *)
(***************************************************************************)
\* the rows of a page as the claim gives them: the rows of sortedData with
\* the 0-based indices (p-1)*perPage .. p*perPage-1 that exist
C1_PageOf(rows, p, perPage) ==
    LET first == (p - 1) * perPage
        count == Min(perPage, Len(rows) - first)
    IN  [i \in 1..count |-> rows[first + i]]

\* C1: for every data set, search term, sort setting and rowsPerPage of the
\* select, totalPages is the ceiling of |sortedData| / rowsPerPage, page p
\* (1 <= p <= totalPages) shows exactly the rows (p-1)*rowsPerPage ..
\* p*rowsPerPage-1 of sortedData, every row of sortedData is on exactly one
\* page, at its place, no page holds more than rowsPerPage rows and every
\* page but the last holds exactly rowsPerPage rows.
C1_Paging ==
    LET sorted == SortedData
        n == Len(sorted)
        total == TotalPages
        page == [p \in 1..total |-> PageRows(sorted, p, rowsPerPage)]
    IN  /\ rowsPerPage \in RowsPerPageOptions
        /\ total * rowsPerPage >= n
        /\ (total - 1) * rowsPerPage < n
        /\ \A p \in 1..total :
               /\ page[p] = C1_PageOf(sorted, p, rowsPerPage)
               /\ Len(page[p]) <= rowsPerPage
               /\ Len(page[p]) >= 1
               /\ p < total => Len(page[p]) = rowsPerPage
        /\ \A i \in 1..n :
               \A p \in 1..total, k \in 1..rowsPerPage :
                   (p - 1) * rowsPerPage + k = i
                       => k <= Len(page[p]) /\ page[p][k] = sorted[i]
        /\ currentPage \in 1..total => CurrentRows = page[currentPage]

\* C1 witness: the last of several pages of a searched and sorted data set,
\* shorter than the pages before it
C1_Witness ==
    /\ searchTerm # <<>>
    /\ sortConfig.key # NULL
    /\ TotalPages >= 2
    /\ currentPage = TotalPages
    /\ Len(CurrentRows) >= 1
    /\ Len(CurrentRows) < rowsPerPage

(***************************************************************************)
(* C2.  The search filter.                                                 *)
(***************************************************************************)
\* text contains part
C2_Contains(text, part) ==
    \E k \in 0..(Len(text) - Len(part)) : SubSeq(text, k + 1, k + Len(part)) = part

\* the indices of the rows of data with a cell whose lower-cased string
\* contains the lower-cased search term
C2_Kept ==
    {i \in 1..Len(data) :
        \E c \in 1..Len(data[i].cells) :
            C2_Contains(ToLowerCase(JsString(data[i].cells[c][2])),
                        ToLowerCase(searchTerm))}

\* C2: filteredData is exactly the subsequence of data, in the original
\* order, of the rows in which at least one cell value, converted to a string
\* and lower-cased, contains the lower-cased search term: its j-th row is the
\* j-th such row of data.
C2_Filter ==
    /\ Len(FilteredData) = Cardinality(C2_Kept)
    /\ \A j \in 1..Len(FilteredData) :
           \E i \in C2_Kept :
               /\ Cardinality({x \in C2_Kept : x <= i}) = j
               /\ FilteredData[j] = data[i]

\* C2 witness: a search term in upper case that keeps some rows and drops
\* others, a kept row standing after a dropped one
C2_Witness ==
    /\ searchTerm # <<>>
    /\ ToLowerCase(searchTerm) # searchTerm
    /\ C2_Kept # {}
    /\ \E i \in C2_Kept : \E j \in 1..(i - 1) : j \notin C2_Kept

(***************************************************************************)
(* C3.  Sorting.                                                           *)
(***************************************************************************)
\* rows is a permutation of base (the rows of data are distinct objects)
C3_Permutation(rows, base) ==
    /\ Len(rows) = Len(base)
    /\ \A i \in 1..Len(base) : \E j \in 1..Len(rows) : rows[j] = base[i]

\* C3: with no sort key sortedData equals filteredData; with a sort key it
\* is a permutation of filteredData in which every earlier row compares less
\* than or equal to every later row on the key column for 'asc' (greater
\* than or equal for 'desc'), two cells being compared as numbers when both
\* convert to a number and neither is the empty string, and otherwise as
\* lower-cased strings.
C3_Sorted ==
    IF sortConfig.key = NULL THEN SortedData = FilteredData
    ELSE LET sorted == SortedData
         IN  /\ C3_Permutation(sorted, FilteredData)
             /\ \A i, j \in 1..Len(sorted) :
                    i < j => Compare(sorted[i], sorted[j], sortConfig) <= 0

(***************************************************************************)
(* C4.  Cell edit.                                                         *)
(***************************************************************************)
\* what the claim says of typing value into column col of the k-th displayed
\* row: in data the row that is that object has value in column col, its
\* other columns, the other rows, the length and the order of data and
\* columns are as before
C4_Edited(k, col, value) ==
    LET shown == CurrentRows[k]
    IN  /\ Len(data') = Len(data)
        /\ columns' = columns
        /\ \A i \in 1..Len(data) :
               IF data[i].ref = shown.ref
               THEN /\ Keys(data'[i].cells) = Keys(data[i].cells)
                    /\ \A c \in 1..Len(data[i].cells) :
                           data'[i].cells[c][2] =
                               IF data[i].cells[c][1] = col THEN Str(value)
                               ELSE data[i].cells[c][2]
               ELSE data'[i] = data[i]

\* C4: typing value v into the cell of column c of a row displayed in the
\* grid replaces, in data, the value of column c of that same row (found by
\* object identity) with v, under any search term, sort setting and page;
\* data keeps its length and order, every other row and every other column
\* of the edited row are unchanged, and columns is unchanged.
C4_CellEdit ==
    [][\A k \in EditPositions, col \in Range(columns), value \in EditValues :
          CellEdit(k, col, value) => C4_Edited(k, col, value)]_vars

\* C4 witness: under a search term and a sort key, the first displayed row
\* is not the first row of data and holds a value that was typed into it
C4_Witness ==
    /\ editCount > 0
    /\ searchTerm # <<>>
    /\ sortConfig.key # NULL
    /\ Len(CurrentRows) >= 2
    /\ CurrentRows[1].ref # data[1].ref
    /\ \E f \in GridFiles :
           /\ fileName = Files[f].name
           /\ \E i \in 1..Len(data) :
                  /\ data[i].ref = CurrentRows[1].ref
                  /\ data[i].cells # ImportedRows(f)[i]

(***************************************************************************)
(* C5.  Upload routing.                                                    *)
(***************************************************************************)
\* the lower-cased name ends in ext
C5_EndsIn(name, ext) ==
    LET lower == ToLowerCase(name)
    IN  /\ Len(ext) <= Len(lower)
        /\ SubSeq(lower, Len(lower) - Len(ext) + 1, Len(lower)) = ext

\* what the claim says of handleFileUpload called with file f
C5_Routed(f) ==
    LET name == Files[f].name
        file == [id |-> uploads + 1, f |-> f]
        known == C5_EndsIn(name, Ext_csv) \/ C5_EndsIn(name, Ext_parquet)
                     \/ C5_EndsIn(name, Ext_json)
    IN  /\ forceCustomConfig' = FALSE
        /\ IF forceCustomConfig \/ ~known
           THEN /\ out'.parser = "none"
                /\ parses' = parses
                /\ pendingFile' = file
                /\ loading' = FALSE
           ELSE /\ pendingFile' = NoFile
                /\ out'.file = file.id
                /\ C5_EndsIn(name, Ext_csv) =>
                       out'.parser = "parseCSV" /\ fileType' = "csv"
                /\ C5_EndsIn(name, Ext_parquet) =>
                       out'.parser = "parseParquet" /\ fileType' = "parquet"
                /\ C5_EndsIn(name, Ext_json) =>
                       out'.parser = "parseJSON" /\ fileType' = "json"

\* C5: when forceCustomConfig is false, handleFileUpload passes a file whose
\* lower-cased name ends in .csv, .parquet or .json to the CSV, Parquet or
\* JSON parser with fileType 'csv', 'parquet' or 'json'; any other name
\* starts no parser and opens the import-settings modal (pendingFile = file,
\* loading = false).  When forceCustomConfig is true the modal opens for
\* every file name, and forceCustomConfig is false afterwards.
C5_Routing ==
    [][\A f \in AppFiles : HandleFileUpload(f) => C5_Routed(f)]_vars

\* C5 witness: the modal is open, after a forced upload, for a file whose
\* name ends in .CSV
C5_Witness ==
    /\ lastOp = "handleFileUpload"
    /\ pendingFile # NoFile
    /\ C5_EndsIn(fileName, Ext_csv)
    /\ fileName # ToLowerCase(fileName)
    /\ ~forceCustomConfig
    /\ ~loading

(***************************************************************************)
(* C6.  JSON import of a non-empty array.                                  *)
(***************************************************************************)
\* the keys of an element that is an object row
C6_KeysOf(elem) == IF elem.t = "object" THEN Keys(elem.cells) ELSE <<>>

\* the first min(n, 100) elements
C6_Sample(elems) == 1..Min(Len(elems), SampleSize)

\* where key first appears in the sample: the element and the place in it
C6_First(elems, key) ==
    LET at == {i \in C6_Sample(elems) : key \in Range(C6_KeysOf(elems[i]))}
        i == CHOOSE x \in at : \A y \in at : x <= y
    IN  <<i, IndexIn(C6_KeysOf(elems[i]), key)>>

\* the value the claim gives column col of the row of elem
C6_Value(elem, col) ==
    LET val == IF elem.t = "object" THEN Get(elem.cells, col) ELSE Undefined
    IN  IF val = Undefined \/ val = Null THEN EmptyStr
        ELSE IF val.t \in {"object", "array"} THEN Str(JsonStringifyValue(val))
        ELSE val

\* what the claim says of the import of the array elems
C6_Imported(elems) ==
    LET keys == UNION {Range(C6_KeysOf(elems[i])) : i \in C6_Sample(elems)}
        Before(a, b) ==
            \/ C6_First(elems, a)[1] < C6_First(elems, b)[1]
            \/ /\ C6_First(elems, a)[1] = C6_First(elems, b)[1]
               /\ C6_First(elems, a)[2] < C6_First(elems, b)[2]
    IN  /\ Range(columns') = keys
        /\ Len(columns') = Cardinality(keys)
        /\ \A x, y \in 1..Len(columns') : x < y => Before(columns'[x], columns'[y])
        /\ Len(data') = Len(elems)
        /\ \A i \in 1..Len(elems) :
               /\ Keys(data'[i].cells) = columns'
               /\ \A c \in 1..Len(columns') :
                      data'[i].cells[c][2] = C6_Value(elems[i], columns'[c])

\* C6: the JSON import of a non-empty array makes columns the union of the
\* keys of the object rows among the first min(n, 100) elements, in order of
\* first appearance, and gives data one row per array element, in order,
\* holding exactly those columns: a missing, undefined or null value as the
\* empty string, a nested object or array as its JSON.stringify text, any
\* other value kept; keys that first appear after element 100 are in no row.
C6_JsonImport ==
    [][\A p \in parses :
          (/\ JsonDone(p)
           /\ Files[p.f].json.valid
           /\ Files[p.f].json.array
           /\ Len(Files[p.f].json.elems) > 0)
              => C6_Imported(Files[p.f].json.elems)]_vars

(***************************************************************************)
(* C7.  JSON import errors.                                                *)
(***************************************************************************)
\* C7: a .json file whose text is not valid JSON sets error to 'Invalid JSON
\* format. Please ensure file contains valid JSON.', one whose top-level
\* value is not an array sets it to 'JSON file must contain an array of
\* objects (e.g. [{}, {}]).'; in both cases loading becomes false and data
\* and columns are left unchanged.
C7_JsonErrors ==
    [][\A p \in parses :
          (JsonDone(p) /\ ~(Files[p.f].json.valid /\ Files[p.f].json.array)) =>
              /\ error' = IF ~Files[p.f].json.valid
                          THEN "Invalid JSON format. Please ensure file contains valid JSON."
                          ELSE "JSON file must contain an array of objects (e.g. [{}, {}])."
              /\ loading' = FALSE
              /\ data' = data
              /\ columns' = columns]_vars

\* C7 witness: a JSON file that holds no array was refused while the rows
\* of another file are loaded, and they are still there
C7_Witness ==
    /\ lastOp = "jsonDone"
    /\ error = "JSON file must contain an array of objects (e.g. [{}, {}])."
    /\ ~loading
    /\ data # <<>>
    /\ columns # <<>>

(***************************************************************************)
(* C8.  CSV export.                                                        *)
(***************************************************************************)
\* C8: in every reachable state in which data is loaded, however it was
\* loaded, choosing 'CSV (.csv)' in the export menu triggers exactly one
\* download, named <fileName without its last extension>_exported.csv, and
\* closes the export menu.
C8_ExportCSV ==
    [][ExportCSV =>
          /\ out'.downloads =
                 <<StripExt(fileName)
                      \o <<"_", "e", "x", "p", "o", "r", "t", "e", "d", ".", "c", "s", "v">> >>
          /\ showExportMenu' = FALSE]_vars

(***************************************************************************)
(* C9.  Parquet export.                                                    *)
(***************************************************************************)
\* a step of a run of exportParquet
C9_Step ==
    \/ \E converted, accept \in BOOLEAN : ExportParquet(converted, accept)
    \/ \E converted, accept \in BOOLEAN : ExportArrowLoaded(converted, accept)
    \/ ExportWasmLoaded
    \/ \E converted, accept \in BOOLEAN : ExportWasmReady(converted, accept)
    \/ \E accept \in BOOLEAN : ExportLoadFailed(accept)

\* the names of the files a run for fileName name can download
C9_Parquet(name) ==
    StripExt(name) \o <<"_", "e", "x", "p", "o", "r", "t", "e", "d",
                        ".", "p", "a", "r", "q", "u", "e", "t">>
C9_Json(name) ==
    StripExt(name) \o <<"_", "e", "x", "p", "o", "r", "t", "e", "d", ".", "j", "s", "o", "n">>

\* C9: every run of exportParquet closes the export menu, sets loading to
\* true and ends with loading = false, on success and on failure of any
\* step; on failure the user is asked to confirm, a JSON file of data is
\* downloaded exactly when they accept and nothing is downloaded when they
\* refuse; data and columns are unchanged in every case.
C9_ExportParquet ==
    [][C9_Step =>
          LET name == IF exportRun.pc = "idle" THEN fileName ELSE exportRun.fileName
          IN  /\ data' = data
              /\ columns' = columns
              /\ exportRun.pc = "idle" => showExportMenu' = FALSE
              /\ (exportRun.pc = "idle" /\ exportRun'.pc # "idle") => loading' = TRUE
              /\ exportRun'.pc = "idle" =>
                     /\ loading' = FALSE
                     /\ \/ /\ out'.confirm = "none"
                           /\ out'.downloads = <<C9_Parquet(name)>>
                        \/ /\ out'.confirm = "accepted"
                           /\ out'.downloads = <<C9_Json(name)>>
                        \/ /\ out'.confirm = "refused"
                           /\ out'.downloads = <<>>]_vars

(***************************************************************************)
(* C10.  The import-settings modal.                                        *)
(***************************************************************************)
\* the delimiter of the parse for what was typed: a tab for the two
\* characters \t, and the empty string (auto-detect) as it is
C10_Delimiter(typed) == IF typed = <<"\\", "t">> THEN <<"\t">> ELSE typed

\* the last extension of a name, '.txt' when it has none
C10_Extension(name) ==
    LET dots == {i \in 1..(Len(name) - 1) :
                    /\ name[i] = "."
                    /\ \A j \in (i + 1)..Len(name) : name[j] \notin {".", "/"}}
    IN  IF dots = {} THEN <<".", "t", "x", "t">>
        ELSE SubSeq(name, CHOOSE i \in dots : TRUE, Len(name))

\* C10: while pendingFile is set no parse is running for that file; 'Import
\* Data' clears pendingFile, sets loading, sets fileType to 'custom', sets
\* customExtension to the file name's last extension (or '.txt') and starts a
\* CSV parse of that file with the chosen delimiter, \t being translated to
\* a tab and the empty string meaning auto-detect; 'Cancel' clears
\* pendingFile, resets importDelimiter to the empty string and
\* forceCustomConfig to false, starts no parse and leaves data and columns
\* unchanged.
C10_Modal ==
    [][/\ pendingFile' # NoFile => \A p \in parses' : p.id # pendingFile'.id
       /\ ProcessPendingFile =>
              /\ pendingFile' = NoFile
              /\ loading' = TRUE
              /\ fileType' = "custom"
              /\ customExtension' = C10_Extension(Files[pendingFile.f].name)
              /\ parses' = parses \cup {[id |-> pendingFile.id, f |-> pendingFile.f,
                                          kind |-> "csv",
                                          delimiter |-> C10_Delimiter(importDelimiter)]}
              /\ parses' # parses
       /\ CancelImport =>
              /\ pendingFile' = NoFile
              /\ importDelimiter' = <<>>
              /\ forceCustomConfig' = FALSE
              /\ parses' = parses
              /\ data' = data
              /\ columns' = columns]_vars

(***************************************************************************)
(* C11.  Custom export.                                                    *)
(***************************************************************************)
\* the delimiter of the export the claim gives for a parse delimiter: the
\* tab of the input \t, the comma for auto-detect, the typed one otherwise
C11_Delimiter(parsed) == IF parsed = <<>> THEN <<",">> ELSE parsed

\* C11: the 'Original' export option is offered only when fileType is
\* 'custom', and whenever fileType is 'custom' customExtension is non-null;
\* choosing it serializes data with the delimiter the loaded data was
\* imported with (tab for the input \t, comma when the import delimiter was
\* auto/empty) and downloads it as <fileName without its last
\* extension>_exported<customExtension>.
C11_CustomExport ==
    [][/\ fileType' = "custom" => customExtension' # NullText
       /\ ExportCustom =>
              /\ fileType = "custom"
              /\ out'.downloads =
                     <<StripExt(fileName) \o <<"_", "e", "x", "p", "o", "r", "t", "e", "d">>
                          \o customExtension>>
              /\ out'.delimiter = C11_Delimiter(loadedBy.delimiter)]_vars

(***************************************************************************)
(* C12.  Column statistics: type and centre.                               *)
(***************************************************************************)
C12_Value(i) == Get(data[i].cells, hoveredColumn)

\* the rows whose value counts as a number, and those whose value counts
\* as a date
C12_Numeric ==
    {i \in 1..Len(data) : HasValue(C12_Value(i)) /\ ~NumberIsNaN(C12_Value(i))}
C12_Dates ==
    {i \in 1..Len(data) : /\ HasValue(C12_Value(i))
                          /\ NumberIsNaN(C12_Value(i))
                          /\ ~DateParseIsNaN(C12_Value(i))}

C12_IsDate == Cardinality(C12_Dates) > Cardinality(C12_Numeric)
C12_Chosen == IF C12_IsDate THEN C12_Dates ELSE C12_Numeric
C12_Number(i) == IF C12_IsDate THEN DateParse(C12_Value(i)) ELSE NumberOf(C12_Value(i))

RECURSIVE C12_Sum(_)
C12_Sum(rows) ==
    IF rows = {} THEN 0
    ELSE LET i == CHOOSE r \in rows : TRUE IN C12_Number(i) + C12_Sum(rows \ {i})

C12_Below(x) == Cardinality({i \in C12_Chosen : C12_Number(i) < x})
C12_Above(x) == Cardinality({i \in C12_Chosen : C12_Number(i) > x})

\* m is the median of the chosen values: the value with at most half of
\* the others on either side, or the average of the two such values
C12_IsMedian(m) ==
    LET n == Cardinality(C12_Chosen)
    IN  IF n % 2 = 1
        THEN \E i \in C12_Chosen :
                /\ C12_Below(C12_Number(i)) <= (n - 1) \div 2
                /\ C12_Above(C12_Number(i)) <= (n - 1) \div 2
                /\ m = [num |-> C12_Number(i), den |-> 1]
        ELSE \E i, j \in C12_Chosen :
                /\ C12_Below(C12_Number(i)) <= n \div 2 - 1
                /\ C12_Above(C12_Number(i)) <= n \div 2
                /\ C12_Below(C12_Number(j)) <= n \div 2
                /\ C12_Above(C12_Number(j)) <= n \div 2 - 1
                /\ m = [num |-> C12_Number(i) + C12_Number(j), den |-> 2]

\* C12: for the hovered column, each non-empty value counts as numeric when
\* Number(value) is not NaN, else as a date when Date.parse(value) is not
\* NaN, else it is ignored; the column is of type 'Date' exactly when there
\* are strictly more dates than numbers; count is the number of values of
\* the chosen type, mean their sum divided by count, median the middle of
\* the sorted values (the average of the two middle ones for an even
\* count); the result is null when no column is hovered, data is empty or
\* the chosen type has no values.
C12_Stats ==
    IF hoveredColumn = NULL \/ Len(data) = 0 \/ C12_Chosen = {}
    THEN ActiveColumnStats = NoStats
    ELSE /\ ActiveColumnStats # NoStats
         /\ ActiveColumnStats.columnName = hoveredColumn
         /\ ActiveColumnStats.type = (IF C12_IsDate THEN "Date" ELSE "Numeric")
         /\ ActiveColumnStats.count = Cardinality(C12_Chosen)
         /\ ActiveColumnStats.meanVal =
                [num |-> C12_Sum(C12_Chosen), den |-> Cardinality(C12_Chosen)]
         /\ C12_IsMedian(ActiveColumnStats.medianVal)

\* the tooltip of a column with as many numbers as dates and a value that is
\* neither: 'Numeric', the median the average of two unequal numbers
C12_Witness ==
    /\ hoveredColumn = "k"
    /\ Cardinality(C12_Numeric) = 2
    /\ Cardinality(C12_Dates) = 2
    /\ ActiveColumnStats.type = "Numeric"
    /\ ActiveColumnStats.meanVal = [num |-> 11, den |-> 2]
    /\ ActiveColumnStats.medianVal = [num |-> 11, den |-> 2]

(***************************************************************************)
(* C13.  Client-side only.                                                 *)
(***************************************************************************)
\* the URLs of the four libraries: the CSV parser, the Parquet reader, Arrow
\* and the Parquet writer
C13_LibraryUrls == {Url_papa, Url_hyparquet, Url_arrow, Url_parquetWasm}

\* the URLs the code names: those of the four libraries and that of the
\* binary of the Parquet writer
C13_FixedUrls == C13_LibraryUrls \cup {Url_parquetWasmBinary}

\* C13 (as stated): no operation sends loaded row data to the network; the
\* only network requests are the loads of the four fixed library URLs,
\* whatever file is loaded.
C13_FourUrls == Range(out.requests) \subseteq C13_LibraryUrls

\* C13 (amended): every network request of an operation is the load of one
\* of five fixed URLs, the four library URLs and the URL of the binary of
\* the Parquet writer, whatever file is loaded and whatever rows data
\* holds; a request goes out only when the page is opened and in a run of
\* exportParquet, and what an export downloads is a local file.
C13_ClientSide ==
    /\ Range(out.requests) \subseteq C13_FixedUrls
    /\ out.requests # <<>> =>
           lastOp \in {"mount", "init", "exportParquet", "exportParquet:arrow",
                       "exportParquet:wasm"}
    /\ out.downloads # <<>> => out.requests = <<>>

\* the initialiser of the Parquet writer fetches the binary while rows are
\* loaded
C13_Witness ==
    /\ data # <<>>
    /\ lastOp = "exportParquet:wasm"
    /\ out.requests = <<Url_parquetWasmBinary>>

(***************************************************************************)
(* C14.  Page bound.                                                       *)
(***************************************************************************)
\* the grid is shown on a page between the first one and the last one
C14_InBounds == ~IsHome => (1 <= currentPage /\ currentPage <= Max(1, TotalPages))

\* C14: in every reachable state in which the grid is shown,
\* 1 <= currentPage <= max(1, totalPages), after any sequence of search,
\* sort, rows-per-page change, navigation, page input and cell edit; a change
\* of the search term or of the rows per page sets currentPage to 1; a cell
\* edit made while a search term is active never leaves the grid on a page
\* past the last one.
C14_PageBound ==
    /\ []C14_InBounds
    /\ [][(searchTerm' # searchTerm \/ rowsPerPage' # rowsPerPage) => currentPage' = 1]_vars

(***************************************************************************)
(* C15.  Loading always ends.                                              *)
(***************************************************************************)
\* C15: every call of handleFileUpload is eventually followed by
\* loading = false, for every extension and whether or not the reader
\* libraries have loaded; the same holds for a custom import started from
\* the modal.
C15_LoadingEnds ==
    (lastOp \in {"handleFileUpload", "processPendingFile"}) ~> ~loading

(***************************************************************************)
(* C16.  Overlapping uploads.                                              *)
(***************************************************************************)
\* C16: when a second file is uploaded while the parse of an earlier one is
\* still running, then once no parse is in flight the rows in data are
\* those of the most recently uploaded file, the one fileName names,
\* whatever the order in which the parses complete; and loading is not
\* false while a parse is still in flight.
C16_Overlap ==
    /\ (parses = {} /\ data # <<>>) => fileName = Files[loadedBy.f].name
    /\ parses # {} => loading

(***************************************************************************)
(* C17.  data and columns change together.                                 *)
(***************************************************************************)
\* a parser called back
C17_ImportEnds ==
    \E p \in parses :
        CsvComplete(p) \/ CsvError(p) \/ JsonDone(p) \/ ParquetComplete(p) \/ ParquetFailed(p)

\* C17: columns is empty exactly when data is empty; each import sets both
\* data and columns or neither of them; reset clears both.
C17_Together ==
    /\ []((columns = <<>>) <=> (data = <<>>))
    /\ [][/\ C17_ImportEnds => \/ (data' = data /\ columns' = columns)
                                \/ (data' # <<>> /\ columns' # <<>>)
          /\ ResetApp => (data' = <<>> /\ columns' = <<>>)]_vars

(***************************************************************************)
(* C18.  Sort cycle.                                                       *)
(***************************************************************************)
\* the sort state after a click on the header of column key, as the claim
\* gives it
C18_Clicked(cfg, key) ==
    IF cfg.key # key THEN [key |-> key, direction |-> "asc"]
    ELSE IF cfg.direction = "asc" THEN [key |-> key, direction |-> "desc"]
    ELSE [key |-> NULL, direction |-> "asc"]

\* C18: a click on the header of a column that is not the sort key makes it
\* the sort key with direction 'asc'; a click on the header of the sort
\* key goes from 'asc' to 'desc' and from 'desc' to no sort key, so three
\* successive clicks on one column return to the unsorted state; in every
\* reachable state a null sort key comes with direction 'asc'; a sort click
\* changes nothing but sortConfig.
C18_SortCycle ==
    /\ [](sortConfig.key = NULL => sortConfig.direction = "asc")
    /\ [][\A key \in Range(columns) :
              HandleSort(key) =>
                 /\ sortConfig' = C18_Clicked(sortConfig, key)
                 /\ sortConfig.key = NULL =>
                        C18_Clicked(C18_Clicked(sortConfig', key), key) = sortConfig
                 /\ UNCHANGED <<data, columns, searchTerm, showEmptyStats, currentPage,
                                rowsPerPage, fileVars, hoverVars, showExportMenu>>]_vars

\* a column sorted downwards, by two clicks on its header, in a grid that is
\* searched
C18_Witness ==
    /\ sortConfig = [key |-> "k", direction |-> "desc"]
    /\ searchTerm # <<>>
    /\ lastOp = "grid"

(***************************************************************************)
(* C19: the view operations and the data.                                  *)
(***************************************************************************)
\* a step of a view operation: search, sort click, page, rows per page,
\* 'Highlight Empty', hovering, the export menu and the exports
C19_ViewOp ==
    \/ \E term \in ViewTerms : SetSearchTerm(term)
    \/ \E key \in Range(columns) : HandleSort(key)
    \/ SetRowsPerPage(100)
    \/ PageInput(1)
    \/ ToggleEmptyStats
    \/ \E col \in Range(columns) : HandleMouseEnterColumn(col)
    \/ HandleMouseLeaveColumn
    \/ \E t \in timers : HoverTimerFires(t)
    \/ \E t \in timers : LeaveTimerFires(t)
    \/ ToggleExportMenu
    \/ CloseExportMenu
    \/ ExportCSV
    \/ ExportJSON
    \/ ExportCustom
    \/ \E converted, accept \in BOOLEAN : ExportParquet(converted, accept)
    \/ \E converted, accept \in BOOLEAN : ExportArrowLoaded(converted, accept)
    \/ ExportWasmLoaded
    \/ \E converted, accept \in BOOLEAN : ExportWasmReady(converted, accept)
    \/ \E accept \in BOOLEAN : ExportLoadFailed(accept)

\* a step of a cell edit, of a completed import or of reset
C19_DataOp ==
    \/ CellEdit(1, "k", <<>>)
    \/ \E p \in parses : CsvComplete(p)
    \/ ResetApp

\* C19: a change of the search term, a click on a sort header, a change of
\* the page or of the rows per page, a toggle of 'Highlight Empty', hovering
\* a column and every export leave data and columns as they are, in content
\* and in order; a step that changes data or columns is a cell edit, a
\* completed import or a reset.
C19_ViewKeepsData ==
    [][(data' # data \/ columns' # columns) => (C19_DataOp /\ ~C19_ViewOp)]_vars

\* the imported rows, in the order of the import, after a custom export of
\* a grid that is searched and sorted downwards
C19_Witness ==
    /\ lastOp = "exportCustom"
    /\ out.downloads # <<>>
    /\ searchTerm # <<>>
    /\ sortConfig = [key |-> "k", direction |-> "desc"]
    /\ \E f \in ViewFiles : data = WithRefs(Files[f].papa.rows)
    /\ SortedOf(data, sortConfig) # data

(***************************************************************************)
(* C20: reset.                                                             *)
(***************************************************************************)
\* C20: resetApp runs only while data is non-empty; after it data, columns,
\* fileName, fileType, searchTerm, currentPage, sortConfig, error,
\* pendingFile, importDelimiter, customExtension, forceCustomConfig and
\* hoveredColumn have the values of the first render and no timer of the
\* tooltip is pending, so that none fires afterwards; rowsPerPage and
\* showEmptyStats keep the values they had before the reset.
C20_Reset ==
    [][lastOp' = "resetApp" =>
          /\ data # <<>>
          /\ data' = <<>>
          /\ columns' = <<>>
          /\ fileName' = Untitled
          /\ fileType' = NULL
          /\ searchTerm' = <<>>
          /\ currentPage' = 1
          /\ sortConfig' = [key |-> NULL, direction |-> "asc"]
          /\ error' = NULL
          /\ pendingFile' = NoFile
          /\ importDelimiter' = <<>>
          /\ customExtension' = NullText
          /\ forceCustomConfig' = FALSE
          /\ hoveredColumn' = NULL
          /\ timers' = {}
          /\ rowsPerPage' = rowsPerPage
          /\ showEmptyStats' = showEmptyStats]_vars

\* the page after a reset of a grid whose rows per page and 'Highlight
\* Empty' were changed and over whose headers the mouse had moved
C20_Witness ==
    /\ lastOp = "resetApp"
    /\ rowsPerPage = 100
    /\ ~showEmptyStats
    /\ leaveTimeoutRef # 0
    /\ timers = {}
    /\ data = <<>>

(***************************************************************************)
(* C21: the delay before the tooltip opens.                                *)
(***************************************************************************)
\* a pending 1000 ms timer belongs to the header under the pointer and is
\* the one hoverTimeoutRef holds
C21_Pending ==
    \A t \in timers : t.kind = "open" => (t.col = pointer /\ t.id = hoverTimeoutRef)

\* C21: hoveredColumn becomes column c only by the firing of the 1000 ms
\* timer of c while the pointer is still on the header of c; a pending
\* 1000 ms timer is that of the header under the pointer, and a mouseleave
\* or a mouseenter leaves none of the earlier 1000 ms timers pending, so the
\* timer that fires is the one the last entry started and a quick pass over
\* a header opens nothing.
C21_OpenDelay ==
    /\ []C21_Pending
    /\ [][/\ (hoveredColumn' # hoveredColumn /\ hoveredColumn' # NULL) =>
                  (/\ pointer = hoveredColumn'
                   /\ pointer' = pointer
                   /\ \E t \in timers \ timers' :
                          t.kind = "open" /\ t.col = hoveredColumn')
          /\ (pointer' # pointer) =>
                  (\A t \in timers' : t.kind = "open" => t \notin timers)]_vars

\* the tooltip of column t open under the pointer after entries that were
\* cancelled
C21_Witness ==
    /\ hoveredColumn = "t"
    /\ pointer = "t"
    /\ hoverTimeoutRef >= 3
    /\ timers = {}

(***************************************************************************)
(* C22: the grace period after the pointer left a header.                  *)
(***************************************************************************)
\* the pending 300 ms timers
C22_Closing == {t \in timers : t.kind = "close"}

\* C22: when the tooltip of column c is open and the pointer, having left
\* the header, enters the header of c again while the 300 ms timer is
\* pending, the timer is cancelled and hoveredColumn stays c; no 300 ms
\* timer is pending while the pointer is on a header, and hoveredColumn
\* becomes null only by the firing of a 300 ms timer while the pointer is
\* on no header, or by a reset; when the 300 ms timer fires, hoveredColumn
\* and copiedColumn both become null.
C22_Grace ==
    /\ [](pointer # NULL => C22_Closing = {})
    /\ [][/\ (pointer = NULL /\ hoveredColumn # NULL /\ pointer' = hoveredColumn) =>
                  (/\ hoveredColumn' = hoveredColumn
                   /\ copiedColumn' = copiedColumn
                   /\ timers' = timers \ C22_Closing)
          /\ (hoveredColumn # NULL /\ hoveredColumn' = NULL) =>
                  (\/ lastOp' = "resetApp"
                   \/ (pointer = NULL /\ \E t \in C22_Closing : t \notin timers'))
          /\ (lastOp' = "hover" /\ pointer' = pointer /\ \E t \in C22_Closing : t \notin timers') =>
                  (hoveredColumn' = NULL /\ copiedColumn' = NULL)]_vars

\* the tooltip closed by the 300 ms timer, and the copy feedback with it
\* while the 2000 ms timer of the copy button is still pending
C22_Witness ==
    /\ hoveredColumn = NULL
    /\ copiedColumn = NULL
    /\ pointer = NULL
    /\ leaveTimeoutRef # 0
    /\ \E t \in timers : t.kind = "uncopy"
    /\ data # <<>>

(***************************************************************************)
(* C23: the tooltip after the pointer left its header.                     *)
(***************************************************************************)
\* C23: once the pointer has left the header of a column whose tooltip is
\* open, the tooltip is closed when the 300 ms timer of that leave fires,
\* unless the pointer came back to the same header: as long as the tooltip
\* of a column is open and the pointer is not on the header of that column,
\* be it on no header or on the header of another column, a 300 ms timer
\* that closes the tooltip is pending.
C23_ClosesAfterLeave ==
    (hoveredColumn # NULL /\ ActiveColumnStats # NoStats /\ pointer # hoveredColumn) =>
        \E t \in timers : t.kind = "close" /\ t.id = leaveTimeoutRef

(***************************************************************************)
(* C24: the shape of the rows of a JSON or Parquet import.                 *)
(***************************************************************************)
\* the keys of a row are the columns, and none of its values is a non-null
\* object
C24_Shaped(row) ==
    /\ Keys(row.cells) = columns
    /\ \A c \in 1..Len(row.cells) : ~IsNonNullObject(row.cells[c][2])

\* C24: after a successful JSON or Parquet import and any cell edits,
\* searches, sorts and page changes that follow, every row of data has
\* exactly the keys listed in columns and no cell value is a non-null
\* object; a step, a cell edit among them, leaves the number of rows and
\* the keys of every row as they are.
C24_RowShape ==
    /\ [](loadedBy.kind \in {"json", "parquet"} =>
              \A i \in 1..Len(data) : C24_Shaped(data[i]))
    /\ [][/\ Len(data') = Len(data)
          /\ \A i \in 1..Len(data) : Keys(data'[i].cells) = Keys(data[i].cells)]_vars

\* a JSON import with a nested value held as text, edited, searched and
\* sorted
C24_Witness ==
    /\ loadedBy.kind = "json"
    /\ editCount > 0
    /\ searchTerm # <<>>
    /\ sortConfig.key # NULL
    /\ \E i \in 1..Len(data) :
           Get(data[i].cells, "u") = Str(JsonStringifyValue(Obj(<< <<"x", 1>> >>)))

(***************************************************************************)
(* C25: the counts of empty cells.                                         *)
(***************************************************************************)
\* the rows of data whose value in column col is null, undefined or ''
C25_EmptyRows(col) ==
    {i \in 1..Len(data) : Get(data[i].cells, col) \in {Null, Undefined, EmptyStr}}

\* C25: while showEmptyStats is on, the count in the header of every column
\* is the number of rows of the whole of data, whatever the search and the
\* page, whose value in the column is null, undefined or the empty string,
\* so it lies between 0 and the number of rows, in every state and so after
\* every cell edit; while showEmptyStats is off the map of counts has no
\* entry and no displayed cell is highlighted.
C25_EmptyCounts ==
    /\ showEmptyStats =>
           \A col \in Range(columns) :
               /\ EmptyBadge(col) = Cardinality(C25_EmptyRows(col))
               /\ EmptyBadge(col) \in 0..Len(data)
    /\ ~showEmptyStats =>
           /\ DOMAIN EmptyCellCounts = {}
           /\ \A k \in 1..Len(CurrentRows), col \in Range(columns) :
                  ~IsEmptyCell(CurrentRows[k], col)

\* a cell of column k emptied by an edit and counted, while the search shows
\* only rows whose k is not empty
C25_Witness ==
    /\ showEmptyStats
    /\ editCount > 0
    /\ searchTerm # <<>>
    /\ "k" \in Range(columns)
    /\ EmptyBadge("k") = 1
    /\ FilteredData # <<>>
    /\ \A i \in 1..Len(FilteredData) : ~IsEmptyValue(Get(FilteredData[i].cells, "k"))

(***************************************************************************)
(* C26: blank cells and empty cells.                                       *)
(***************************************************************************)
\* C26: with showEmptyStats on, the input of a displayed cell is blank
\* exactly when the cell is highlighted as empty, that is when its value is
\* null, undefined or the empty string; a value that is not empty, such as
\* the number 0 or the boolean false of a JSON or Parquet file, is shown as
\* text that is not blank.
C26_BlankIsEmpty ==
    showEmptyStats =>
        \A k \in 1..Len(CurrentRows), col \in Range(columns) :
            (CellText(Get(CurrentRows[k].cells, col)) = <<>>)
                <=> IsEmptyCell(CurrentRows[k], col)

(***************************************************************************)
(* C27: the mode of a numeric column, the range of a date column.          *)
(***************************************************************************)
\* how often a number occurs among the values, and the values that occur
\* most often
C27_Count(values, n) == Cardinality({i \in 1..Len(values) : values[i] = n})
C27_Modes(values) ==
    LET count == [n \in Range(values) |-> C27_Count(values, n)]
    IN  {n \in Range(values) : \A m \in Range(values) : count[m] <= count[n]}

\* the texts that list the given numbers, each once, separated by ', '
C27_Lists(numbers) ==
    {JoinModes(order) : order \in {o \in [1..Cardinality(numbers) -> numbers] :
                                       \A i, j \in DOMAIN o : o[i] = o[j] => i = j}}

\* C27: of a numeric column the mode label is 'None' when no value occurs
\* more than once; otherwise it lists exactly the values of the highest
\* frequency when they are at most 3, and 3 of them followed by '...' when
\* they are more; of a date column there is no mode label and min and max
\* are the smallest and the largest timestamp of the column.
C27_Mode ==
    (hoveredColumn # NULL /\ ActiveColumnStats # NoStats) =>
        LET values == IF ActiveColumnStats.type = "Date"
                      THEN DateValues(data, hoveredColumn)
                      ELSE NumericValues(data, hoveredColumn)
            modes == C27_Modes(values)
            shown == ActiveColumnMode
        IN  IF ActiveColumnStats.type = "Date"
            THEN /\ shown.mode = NullText
                 /\ shown.hasRange
                 /\ shown.minVal \in Range(values)
                 /\ shown.maxVal \in Range(values)
                 /\ \A v \in Range(values) : shown.minVal <= v /\ v <= shown.maxVal
            ELSE /\ ~shown.hasRange
                 /\ IF \A n \in Range(values) : C27_Count(values, n) <= 1
                    THEN shown.mode = <<"N", "o", "n", "e">>
                    ELSE IF Cardinality(modes) <= 3
                    THEN shown.mode \in C27_Lists(modes)
                    ELSE \E three \in SUBSET modes :
                            /\ Cardinality(three) = 3
                            /\ \E text \in C27_Lists(three) :
                                   shown.mode = text \o <<".", ".", ".">>

\* the tooltip of a numeric column in which four numbers occur twice each
C27_Witness ==
    /\ hoveredColumn = "k"
    /\ ActiveColumnStats # NoStats
    /\ ActiveColumnStats.type = "Numeric"
    /\ Cardinality(C27_Modes(NumericValues(data, hoveredColumn))) = 4
    /\ ActiveColumnMode.mode = <<"1", ",", " ", "2", ",", " ", "3", ".", ".", ".">>

\* the tooltip of a date column of two different dates
C27_WitnessDates ==
    /\ hoveredColumn = "k"
    /\ ActiveColumnStats # NoStats
    /\ ActiveColumnStats.type = "Date"
    /\ ActiveColumnMode.minVal < ActiveColumnMode.maxVal

(***************************************************************************)
(* C28: a cell edit in the earlier grid implementation.                    *)
(***************************************************************************)
\* C28: in the grid of src/unnamed/part_000, typing into the cell at
\* position k of the current page changes, in data, the row that is
\* displayed at that position, also while a search term is filtering the
\* rows; no other row is modified and data keeps its length.
C28_EditsDisplayedRow ==
    [][\A rowIndex \in 0..2, col \in Range(columns), value \in EditValues :
          UpdateCell_000(rowIndex, col, value) =>
              LET row == CurrentRows_000[rowIndex + 1]
                  i == IndexOfRow(data, row)
              IN  /\ Len(data') = Len(data)
                  /\ data'[i].cells = Put(row.cells, col, Str(value))
                  /\ \A j \in 1..Len(data) : j # i => data'[j] = data[j]]_vars

=============================================================================
